---------------------------- MODULE Spec2Model ----------------------------
(***************************************************************************)
(* A model of the woflang core interpreter (cpp-v10.1.1): the tagged       *)
(* value, the token classifiers, the whitespace tokenizer, the operator    *)
(* registry and the dispatch loop of WoflangInterpreter.                   *)
(*                                                                         *)
(* Text (lines, tokens, string payloads) is a sequence of one-character    *)
(* strings, so that the character-level code is modelled as written.       *)
(* A 64-bit integer payload is a sign and a magnitude of three base-10^7   *)
(* limbs, which holds every value of std::int64_t exactly.  A double       *)
(* payload is an exact rational n/d in lowest terms; the model explores    *)
(* only doubles with |n| <= NumBound and d <= DenBound, where the IEEE     *)
(* operations of the code are exact, and does not model rounding.          *)
(***************************************************************************)
EXTENDS Integers, Sequences, FiniteSets, TLC

VARIABLES
    stack,      \* WoflangInterpreter::stack, bottom first
    ops,        \* WoflangInterpreter::ops: registered name -> handler
    rest,       \* exec_line: the tokens of the current line not yet dispatched
    err,        \* the exception that ended the last call, or NoErr
    lastTok,    \* history: the token dispatched by the last step, <<>> if none
    invoked,    \* history: the handler the last step invoked, NoHandler if none
    inComment,  \* history: a token beginning with '#' was met on the current line
    regLog,     \* history: the register_op calls made so far, oldest first
    curLine,    \* history: the line given to the last recorded exec_line call
    stack0,     \* history: the stack when that call began
    loop,       \* the read loop that is running, or how the last one ended
    input,      \* the lines the running read loop has not read yet
    plugin_handles, \* WoflangInterpreter::plugin_handles, oldest first
    plugLog,    \* history: the plugin-loading calls and the dlopen,
                \* register_plugin and dlclose calls they made, oldest first
    curDir,     \* history: what the path given to the last load_plugins call
                \* named, NoDir before the first call
    destroyed,  \* the interpreter's destructor has run
    begun,      \* history: exec_line has been called on this interpreter
    peer        \* a second interpreter of the process: its stack and its ops

vars == <<stack, ops, rest, err, lastTok, invoked, inComment, regLog,
          curLine, stack0, loop, input, plugin_handles, plugLog, curDir,
          destroyed, begun, peer>>

\* the variables of plugin loading
plugins == <<plugin_handles, plugLog, curDir, destroyed>>

-----------------------------------------------------------------------------
(* Bounds of the model *)

MaxDepth == 3
MaxToks == 2
NumBound == 2
DenBound == 2
MaxRegs == 2
MaxLineLen == 4
MaxTokLen == 3
MaxLines == 3
MaxEntries == 2
MaxLoads == 2

-----------------------------------------------------------------------------
(* Characters *)

Digits == {"0", "1", "2", "3", "4", "5", "6", "7", "8", "9"}

DigitChar == <<"0", "1", "2", "3", "4", "5", "6", "7", "8", "9">>

DigitVal(c) == CHOOSE k \in 0..9 : DigitChar[k + 1] = c

isdigit(c) == c \in Digits

isspace(c) == c \in {" ", "\t", "\n", "\r", "\f"}

-----------------------------------------------------------------------------
(* std::int64_t: sign and magnitude, the magnitude in three limbs of base  *)
(* 10^7, most significant first.                                           *)

Base == 10 ^ 7

ZeroMag == <<0, 0, 0>>

\* 9223372036854775807 and 9223372036854775808
LLONG_MAX_MAG == <<92233, 7203685, 4775807>>

LLONG_MIN_MAG == <<92233, 7203685, 4775808>>

MagLE(a, b) ==
    \/ a[1] < b[1]
    \/ a[1] = b[1] /\ a[2] < b[2]
    \/ a[1] = b[1] /\ a[2] = b[2] /\ a[3] <= b[3]

\* mag * 10 + d; the top limb is left unreduced (the caller compares it
\* with the limit before going on)
MagMul10Add(mag, d) ==
    LET l == mag[3] * 10 + d
        m == mag[2] * 10 + (l \div Base)
        h == mag[1] * 10 + (m \div Base)
    IN  <<h, m % Base, l % Base>>

I64(neg, mag) == [neg |-> neg /\ mag # ZeroMag, mag |-> mag]

I64Zero == I64(FALSE, ZeroMag)

\* a small integer of the model as a std::int64_t
I64Of(k) == I64(k < 0, <<0, 0, IF k < 0 THEN -k ELSE k>>)

-----------------------------------------------------------------------------
(* double: an exact rational in lowest terms, d > 0 *)

RECURSIVE Gcd(_, _)
Gcd(a, b) == IF b = 0 THEN a ELSE Gcd(b, a % b)

Abs(x) == IF x < 0 THEN -x ELSE x

Rat(n, d) ==
    LET g == Gcd(Abs(n), Abs(d))
        s == IF d < 0 THEN -1 ELSE 1
    IN  [n |-> (s * n) \div g, d |-> (s * d) \div g]

RatZero == [n |-> 0, d |-> 1]

\* the NaN of double, which is no fraction: 0/0
NaN == [n |-> 0, d |-> 0]

\* the doubles the model explores
InRange(r) == /\ -NumBound <= r.n
              /\ r.n <= NumBound
              /\ r.d <= DenBound

\* stands for every double outside the explored range
OutOfRange == [n |-> NumBound + 1, d |-> 1]

RatAdd(a, b) == IF InRange(a) /\ InRange(b)
                THEN Rat(a.n * b.d + b.n * a.d, a.d * b.d) ELSE OutOfRange

RatSub(a, b) == IF InRange(a) /\ InRange(b)
                THEN Rat(a.n * b.d - b.n * a.d, a.d * b.d) ELSE OutOfRange

RatMul(a, b) == IF InRange(a) /\ InRange(b)
                THEN Rat(a.n * b.n, a.d * b.d) ELSE OutOfRange

\* b is not zero
RatDiv(a, b) == IF InRange(a) /\ InRange(b)
                THEN Rat(a.n * b.d, a.d * b.n) ELSE OutOfRange

\* static_cast<double>(std::int64_t)
I64ToDouble(i) ==
    IF i.mag[1] = 0 /\ i.mag[2] = 0 /\ i.mag[3] <= NumBound
    THEN [n |-> IF i.neg THEN -i.mag[3] ELSE i.mag[3], d |-> 1]
    ELSE OutOfRange

-----------------------------------------------------------------------------
(* WofValue: the tag, the variant payload (its active alternative is       *)
(* `index`; the alternatives not active hold their defaults) and the unit. *)

NoUnit == [present |-> FALSE, name |-> <<>>, scale |-> RatZero]

Storage(index, i, d, s) == [index |-> index, i |-> i, d |-> d, s |-> s]

\* WofValue(): type Unknown, value std::monostate, no unit
DefaultValue ==
    [type |-> "Unknown", value |-> Storage("monostate", I64Zero, RatZero, <<>>),
     unit |-> NoUnit]

make_int(v) ==
    [type |-> "Integer", value |-> Storage("int64", v, RatZero, <<>>),
     unit |-> NoUnit]

make_double(v) ==
    [type |-> "Double", value |-> Storage("double", I64Zero, v, <<>>),
     unit |-> NoUnit]

make_string(s) ==
    [type |-> "String", value |-> Storage("string", I64Zero, RatZero, s),
     unit |-> NoUnit]

\* tags the value and leaves the payload empty
make_symbolNoPayload(s) ==
    [type |-> "Symbol", value |-> Storage("monostate", I64Zero, RatZero, <<>>),
     unit |-> NoUnit]

make_symbol(s) ==
    [type |-> "Symbol", value |-> Storage("string", I64Zero, RatZero, s),
     unit |-> NoUnit]

\* WofValue::as_numeric: the double, or the message of the exception
as_numeric(w) ==
    IF w.type = "Integer"
    THEN [err |-> "none", x |-> I64ToDouble(w.value.i)]
    ELSE IF w.type = "Double"
    THEN [err |-> "none", x |-> w.value.d]
    ELSE [err |-> "WofValue::as_numeric: value is not numeric", x |-> RatZero]

is_numeric(w) == w.type = "Integer" \/ w.type = "Double"

\* a WofValue whose unit member points to a UnitInfo
WithUnit(w, name, scale) ==
    [w EXCEPT !.unit = [present |-> TRUE, name |-> name, scale |-> scale]]

\* operator== of double: a NaN compares unequal to everything
DoubleEq(x, y) == x # NaN /\ y # NaN /\ x = y

\* operator== of the std::variant: the same alternative, and equal values
VariantEq(v, w) ==
    /\ v.index = w.index
    /\ CASE v.index = "int64"  -> v.i = w.i
         [] v.index = "double" -> DoubleEq(v.d, w.d)
         [] v.index = "string" -> v.s = w.s
         [] OTHER              -> TRUE

\* takes no notice of the units
WofEqIgnoresUnits(a, b) ==
    IF a.type # b.type THEN FALSE ELSE VariantEq(a.value, b.value)

\* WofValue::operator==
WofEq(a, b) ==
    IF a.type # b.type THEN FALSE
    ELSE IF a.unit.present /\ b.unit.present
    THEN IF a.unit.name # b.unit.name
            \/ ~DoubleEq(a.unit.scale, b.unit.scale)
         THEN FALSE
         ELSE VariantEq(a.value, b.value)
    ELSE IF a.unit.present \/ b.unit.present THEN FALSE
    ELSE VariantEq(a.value, b.value)

\* WofValue::operator!=
WofNe(a, b) == ~WofEq(a, b)

-----------------------------------------------------------------------------
(* operator<< of a std::int64_t and of a double *)

RECURSIVE NatText(_)
NatText(n) ==
    IF n < 10 THEN <<DigitChar[n + 1]>>
    ELSE NatText(n \div 10) \o <<DigitChar[(n % 10) + 1]>>

\* the last w digits of n, zero-padded
RECURSIVE PadText(_, _)
PadText(n, w) ==
    IF w = 0 THEN <<>>
    ELSE PadText(n \div 10, w - 1) \o <<DigitChar[(n % 10) + 1]>>

RECURSIVE StripTrailingZeros(_)
StripTrailingZeros(s) ==
    IF s # <<>> /\ s[Len(s)] = "0"
    THEN StripTrailingZeros(SubSeq(s, 1, Len(s) - 1)) ELSE s

I64TextSignDropped(i) ==
    LET h == i.mag[1]
        m == i.mag[2]
        l == i.mag[3]
    IN  IF h > 0 THEN NatText(h) \o PadText(m, 7) \o PadText(l, 7)
        ELSE IF m > 0 THEN NatText(m) \o PadText(l, 7)
        ELSE NatText(l)

I64Text(i) ==
    LET h == i.mag[1]
        m == i.mag[2]
        l == i.mag[3]
    IN  (IF i.neg THEN <<"-">> ELSE <<>>)
        \o (IF h > 0 THEN NatText(h) \o PadText(m, 7) \o PadText(l, 7)
            ELSE IF m > 0 THEN NatText(m) \o PadText(l, 7)
            ELSE NatText(l))

\* default formatting (%g, precision 6) of a double of the explored range:
\* six significant digits, fixed notation, trailing zeros dropped
DoubleText(r) ==
    LET a    == Abs(r.n)
        ip   == a \div r.d
        k    == IF ip = 0 THEN 6 ELSE 6 - Len(NatText(ip))
        sc   == (2 * a * (10 ^ k) + r.d) \div (2 * r.d)
        frac == StripTrailingZeros(PadText(sc % (10 ^ k), k))
    IN  (IF r.n < 0 THEN <<"-">> ELSE <<>>)
        \o NatText(sc \div (10 ^ k))
        \o (IF frac = <<>> THEN <<>> ELSE <<".">> \o frac)

to_string(w) ==
    LET body == CASE w.type = "Integer" -> I64Text(w.value.i)
                  [] w.type = "Double"  -> DoubleText(w.value.d)
                  [] w.type \in {"String", "Symbol"} -> w.value.s
                  [] OTHER -> <<"<", "u", "n", "k", "n", "o", "w", "n", ">">>
    IN  IF w.unit.present THEN body \o <<" ">> \o w.unit.name ELSE body

-----------------------------------------------------------------------------
(* Token classification and the numeric conversions *)

is_integer_token(token) ==
    IF token = <<>> THEN FALSE
    ELSE LET pos == IF token[1] = "+" \/ token[1] = "-" THEN 2 ELSE 1
         IN  /\ pos <= Len(token)
             /\ \A p \in pos..Len(token) : isdigit(token[p])

\* does not ask for a digit
is_float_tokenNoDigit(token) ==
    IF token = <<>> THEN FALSE
    ELSE LET pos  == IF token[1] = "+" \/ token[1] = "-" THEN 2 ELSE 1
             body == pos..Len(token)
         IN  /\ \A p \in body : isdigit(token[p]) \/ token[p] = "."
             /\ Cardinality({p \in body : token[p] = "."}) <= 1
             /\ \E p \in body : token[p] = "."

is_float_token(token) ==
    IF token = <<>> THEN FALSE
    ELSE LET pos  == IF token[1] = "+" \/ token[1] = "-" THEN 2 ELSE 1
             body == pos..Len(token)
         IN  /\ \A p \in body : isdigit(token[p]) \/ token[p] = "."
             /\ Cardinality({p \in body : token[p] = "."}) <= 1
             /\ \E p \in body : isdigit(token[p])
             /\ \E p \in body : token[p] = "."

\* strtoll's accumulation of the digits from pos on: the magnitude, or
\* ok = FALSE as soon as it passes the limit of its sign (ERANGE)
RECURSIVE StollAcc(_, _, _, _)
StollAcc(token, pos, mag, limit) ==
    IF pos > Len(token) THEN [ok |-> TRUE, mag |-> mag]
    ELSE LET m2 == MagMul10Add(mag, DigitVal(token[pos]))
         IN  IF MagLE(m2, limit) THEN StollAcc(token, pos + 1, m2, limit)
             ELSE [ok |-> FALSE, mag |-> ZeroMag]

\* std::stoll on an integer token: the value, or ok = FALSE where it throws
\* std::out_of_range
stoll(token) ==
    LET neg == token[1] = "-"
        pos == IF token[1] = "+" \/ token[1] = "-" THEN 2 ELSE 1
        acc == StollAcc(token, pos, ZeroMag,
                        IF neg THEN LLONG_MIN_MAG ELSE LLONG_MAX_MAG)
    IN  [ok |-> acc.ok, v |-> I64(neg, acc.mag)]

\* the digits of a float token from pos on, the '.' skipped: the number
\* they spell and the count of digits after the '.'
RECURSIVE StodAcc(_, _, _, _, _)
StodAcc(token, pos, n, k, dot) ==
    IF pos > Len(token) THEN [n |-> n, k |-> k]
    ELSE IF token[pos] = "." THEN StodAcc(token, pos + 1, n, k, TRUE)
    ELSE StodAcc(token, pos + 1, n * 10 + DigitVal(token[pos]),
                 IF dot THEN k + 1 ELSE k, dot)

\* std::stod on a float token (the model's float tokens are short)
stod(token) ==
    LET neg == token[1] = "-"
        pos == IF token[1] = "+" \/ token[1] = "-" THEN 2 ELSE 1
        acc == StodAcc(token, pos, 0, 0, FALSE)
    IN  IF Len(token) > 8 THEN OutOfRange
        ELSE Rat(IF neg THEN -acc.n ELSE acc.n, 10 ^ acc.k)

-----------------------------------------------------------------------------
(* trim and simple_tokenize *)

RECURSIVE TrimStart(_, _)
TrimStart(s, start) ==
    IF start < Len(s) /\ isspace(s[start + 1]) THEN TrimStart(s, start + 1)
    ELSE start

RECURSIVE TrimEnd(_, _, _)
TrimEnd(s, start, end) ==
    IF end > start /\ isspace(s[end]) THEN TrimEnd(s, start, end - 1)
    ELSE end

trim(s) ==
    LET start == TrimStart(s, 0)
        end   == TrimEnd(s, start, Len(s))
    IN  SubSeq(s, start + 1, end)

\* goes on with the current token after a closing quote
RECURSIVE TokenizeFromNoEmit(_, _, _, _, _)
TokenizeFromNoEmit(line, i, tokens, current, in_quotes) ==
    IF i > Len(line)
    THEN IF current # <<>> THEN Append(tokens, current) ELSE tokens
    ELSE LET c == line[i]
         IN  IF c = "\""
             THEN TokenizeFromNoEmit(line, i + 1, tokens, Append(current, c),
                                     ~in_quotes)
             ELSE IF isspace(c) /\ ~in_quotes
             THEN IF current # <<>>
                  THEN TokenizeFromNoEmit(line, i + 1, Append(tokens, current),
                                          <<>>, in_quotes)
                  ELSE TokenizeFromNoEmit(line, i + 1, tokens, current,
                                          in_quotes)
             ELSE TokenizeFromNoEmit(line, i + 1, tokens, Append(current, c),
                                     in_quotes)

\* the loop of simple_tokenize from character i on, then its final flush
RECURSIVE TokenizeFrom(_, _, _, _, _)
TokenizeFrom(line, i, tokens, current, in_quotes) ==
    IF i > Len(line)
    THEN IF current # <<>> THEN Append(tokens, current) ELSE tokens
    ELSE LET c == line[i]
         IN  IF c = "\""
             THEN IF in_quotes
                  THEN TokenizeFrom(line, i + 1,
                                    Append(tokens, Append(current, c)),
                                    <<>>, FALSE)
                  ELSE TokenizeFrom(line, i + 1, tokens,
                                    Append(current, c), TRUE)
             ELSE IF isspace(c) /\ ~in_quotes
             THEN IF current # <<>>
                  THEN TokenizeFrom(line, i + 1, Append(tokens, current),
                                    <<>>, in_quotes)
                  ELSE TokenizeFrom(line, i + 1, tokens, current, in_quotes)
             ELSE TokenizeFrom(line, i + 1, tokens, Append(current, c),
                               in_quotes)

simple_tokenize(line) == TokenizeFrom(line, 1, <<>>, <<>>, FALSE)

-----------------------------------------------------------------------------
(* The texts the model feeds to the interpreter *)

T_plus == <<"+">>

T_minus == <<"-">>

T_star == <<"*">>

T_slash == <<"/">>

T_dup == <<"d", "u", "p">>

T_drop == <<"d", "r", "o", "p">>

T_swap == <<"s", "w", "a", "p">>

T_print == <<"p", "r", "i", "n", "t">>

T_dot_s == <<".", "s">>

T_0 == <<"0">>

T_2 == <<"2">>

T_half == <<"0", ".", "5">>

T_str == <<"\"", "a", " ", "b", "\"">>

T_hash == <<"#">>

T_hashx == <<"#", "x">>

T_DUP == <<"D", "U", "P">>

T_dot == <<".">>

T_oracle == <<"o", "r", "a", "c", "l", "e">>

T_prophecy == <<"p", "r", "o", "p", "h", "e", "c", "y">>

T_stack_slayer ==
    <<"s", "t", "a", "c", "k", "_", "s", "l", "a", "y", "e", "r">>

T_kanji_info == <<"k", "a", "n", "j", "i", "_", "i", "n", "f", "o">>

T_p5 == <<"+", "5">>

T_007 == <<"0", "0", "7">>

T_m0 == <<"-", "0">>

T_m17 == <<"-", "1", "7">>

T_42 == <<"4", "2">>

T_max == <<"9", "2", "2", "3", "3", "7", "2", "0", "3", "6", "8", "5", "4", "7", "7", "5", "8", "0", "7">>

T_max1 == <<"9", "2", "2", "3", "3", "7", "2", "0", "3", "6", "8", "5", "4", "7", "7", "5", "8", "0", "8">>

T_min == <<"-", "9", "2", "2", "3", "3", "7", "2", "0", "3", "6", "8", "5", "4", "7", "7", "5", "8", "0", "8">>

T_min1 == <<"-", "9", "2", "2", "3", "3", "7", "2", "0", "3", "6", "8", "5", "4", "7", "7", "5", "8", "0", "9">>

T_qdup == <<"\"", "d", "u", "p", "\"">>

T_q42 == <<"\"", "4", "2", "\"">>

T_open == <<"\"", "a">>

T_quit == <<"q", "u", "i", "t">>

T_exit == <<"e", "x", "i", "t">>

T_help == <<"h", "e", "l", "p">>

T_benchmark == <<"b", "e", "n", "c", "h", "m", "a", "r", "k">>

T_pi == <<"p", "i">>

T_e == <<"e">>

T_sin == <<"s", "i", "n">>

T_cos == <<"c", "o", "s">>

T_tan == <<"t", "a", "n">>

T_asin == <<"a", "s", "i", "n">>

T_acos == <<"a", "c", "o", "s">>

T_atan == <<"a", "t", "a", "n">>

T_atan2 == <<"a", "t", "a", "n", "2">>

T_sinh == <<"s", "i", "n", "h">>

T_cosh == <<"c", "o", "s", "h">>

T_tanh == <<"t", "a", "n", "h">>

T_deg_rad == <<"d", "e", "g", "-", ">", "r", "a", "d">>

T_rad_deg == <<"r", "a", "d", "-", ">", "d", "e", "g">>

T_simplify_sum == <<"s", "i", "m", "p", "l", "i", "f", "y", "_", "s", "u", "m">>

T_simplify_mul_one == <<"s", "i", "m", "p", "l", "i", "f", "y", "_", "m", "u", "l", "_", "o", "n", "e">>

T_simplify_add_zero == <<"s", "i", "m", "p", "l", "i", "f", "y", "_", "a", "d", "d", "_", "z", "e", "r", "o">>

T_simplify_mul_zero == <<"s", "i", "m", "p", "l", "i", "f", "y", "_", "m", "u", "l", "_", "z", "e", "r", "o">>

T_x == <<"x">>

T_y == <<"y">>

T_1 == <<"1">>

T_20digits == <<"9", "9", "9", "9", "9", "9", "9", "9", "9", "9", "9", "9", "9", "9", "9", "9", "9", "9", "9", "9">>

-----------------------------------------------------------------------------
(* The stack helpers.  A call that can throw returns the stack as the      *)
(* throw leaves it and the message of the std::runtime_error, or NoErr.    *)

NoErr == "none"

NoHandler == "none"

Ok(stk) == [stack |-> stk, err |-> NoErr]

Raise(stk, msg) == [stack |-> stk, err |-> msg]

push(stk, v) == Append(stk, v)

stack_has(stk, n) == Len(stk) >= n

popUnchecked(stk) ==
    [stack |-> SubSeq(stk, 1, Len(stk) - 1), err |-> NoErr,
     v |-> IF stk = <<>> THEN DefaultValue ELSE stk[Len(stk)]]

pop(stk) ==
    IF stk = <<>>
    THEN [stack |-> stk, err |-> "stack underflow", v |-> DefaultValue]
    ELSE [stack |-> SubSeq(stk, 1, Len(stk) - 1), err |-> NoErr,
          v |-> stk[Len(stk)]]

\* takes a value that is no number for zero
pop_numericLenient(stk) ==
    LET p == pop(stk)
    IN  IF p.err # NoErr THEN [stack |-> p.stack, err |-> p.err, x |-> RatZero]
        ELSE IF p.v.type = "Double"
        THEN [stack |-> p.stack, err |-> NoErr, x |-> p.v.value.d]
        ELSE IF p.v.type = "Integer"
        THEN [stack |-> p.stack, err |-> NoErr, x |-> I64ToDouble(p.v.value.i)]
        ELSE [stack |-> p.stack, err |-> NoErr, x |-> RatZero]

pop_numeric(stk) ==
    LET p == pop(stk)
    IN  IF p.err # NoErr THEN [stack |-> p.stack, err |-> p.err, x |-> RatZero]
        ELSE IF p.v.type = "Double"
        THEN [stack |-> p.stack, err |-> NoErr, x |-> p.v.value.d]
        ELSE IF p.v.type = "Integer"
        THEN [stack |-> p.stack, err |-> NoErr, x |-> I64ToDouble(p.v.value.i)]
        ELSE [stack |-> p.stack, err |-> "pop_numeric: value is not numeric",
              x |-> RatZero]

-----------------------------------------------------------------------------
(* The built-in handlers registered by the constructor *)

op_add(stk) ==
    LET b == pop_numeric(stk)
        a == pop_numeric(b.stack)
    IN  IF b.err # NoErr THEN Raise(b.stack, b.err)
        ELSE IF a.err # NoErr THEN Raise(a.stack, a.err)
        ELSE Ok(push(a.stack, make_double(RatAdd(a.x, b.x))))

op_subOperandsSwapped(stk) ==
    LET b == pop_numeric(stk)
        a == pop_numeric(b.stack)
    IN  IF b.err # NoErr THEN Raise(b.stack, b.err)
        ELSE IF a.err # NoErr THEN Raise(a.stack, a.err)
        ELSE Ok(push(a.stack, make_double(RatSub(b.x, a.x))))

op_sub(stk) ==
    LET b == pop_numeric(stk)
        a == pop_numeric(b.stack)
    IN  IF b.err # NoErr THEN Raise(b.stack, b.err)
        ELSE IF a.err # NoErr THEN Raise(a.stack, a.err)
        ELSE Ok(push(a.stack, make_double(RatSub(a.x, b.x))))

op_mul(stk) ==
    LET b == pop_numeric(stk)
        a == pop_numeric(b.stack)
    IN  IF b.err # NoErr THEN Raise(b.stack, b.err)
        ELSE IF a.err # NoErr THEN Raise(a.stack, a.err)
        ELSE Ok(push(a.stack, make_double(RatMul(a.x, b.x))))

\* tests the dividend where the code tests the divisor; a quotient by zero
\* is an infinity, written n/0
op_divWrongOperand(stk) ==
    LET b == pop_numeric(stk)
        a == pop_numeric(b.stack)
    IN  IF b.err # NoErr THEN Raise(b.stack, b.err)
        ELSE IF a.err # NoErr THEN Raise(a.stack, a.err)
        ELSE IF a.x = RatZero THEN Raise(a.stack, "division by zero")
        ELSE IF b.x = RatZero
        THEN Ok(push(a.stack, make_double([n |-> a.x.n \div Abs(a.x.n),
                                           d |-> 0])))
        ELSE Ok(push(a.stack, make_double(RatDiv(a.x, b.x))))

op_div(stk) ==
    LET b == pop_numeric(stk)
        a == pop_numeric(b.stack)
    IN  IF b.err # NoErr THEN Raise(b.stack, b.err)
        ELSE IF a.err # NoErr THEN Raise(a.stack, a.err)
        ELSE IF b.x = RatZero THEN Raise(a.stack, "division by zero")
        ELSE Ok(push(a.stack, make_double(RatDiv(a.x, b.x))))

\* copies the bottom of the stack where the code copies the top
op_dupBottom(stk) ==
    IF ~stack_has(stk, 1)
    THEN Raise(stk, "dup requires at least one value on the stack")
    ELSE Ok(push(stk, stk[1]))

op_dup(stk) ==
    IF ~stack_has(stk, 1)
    THEN Raise(stk, "dup requires at least one value on the stack")
    ELSE Ok(push(stk, stk[Len(stk)]))


\* removes the value under the top instead of the top
op_dropSecond(stk) ==
    IF ~stack_has(stk, 1)
    THEN Raise(stk, "drop requires at least one value on the stack")
    ELSE IF Len(stk) = 1 THEN Ok(<<>>)
    ELSE Ok(Append(SubSeq(stk, 1, Len(stk) - 2), stk[Len(stk)]))

op_drop(stk) ==
    IF ~stack_has(stk, 1)
    THEN Raise(stk, "drop requires at least one value on the stack")
    ELSE LET p == pop(stk) IN Raise(p.stack, p.err)

\* copies the top over the second value and leaves the top where it was
op_swapCopiesTop(stk) ==
    IF ~stack_has(stk, 2)
    THEN Raise(stk, "swap requires at least two values on the stack")
    ELSE Ok([stk EXCEPT ![Len(stk) - 1] = stk[Len(stk)]])

\* asks for one value where the code asks for two
op_swapOneValue(stk) ==
    IF ~stack_has(stk, 1)
    THEN Raise(stk, "swap requires at least two values on the stack")
    ELSE IF Len(stk) = 1 THEN Ok(stk)
    ELSE Ok([stk EXCEPT ![Len(stk)] = stk[Len(stk) - 1],
                        ![Len(stk) - 1] = stk[Len(stk)]])

op_swap(stk) ==
    IF ~stack_has(stk, 2)
    THEN Raise(stk, "swap requires at least two values on the stack")
    ELSE Ok([stk EXCEPT ![Len(stk)] = stk[Len(stk) - 1],
                        ![Len(stk) - 1] = stk[Len(stk)]])

\* print and .s (print_stack) write to std::cout and leave the stack alone
\* takes the value it shows off the stack
op_printPops(stk) == LET p == pop(stk) IN Raise(p.stack, p.err)

op_print(stk) == Ok(stk)

op_dot_s(stk) == Ok(stk)

\* the stubbed plugin operators: a line on std::cout, nothing else
op_stub(stk) == Ok(stk)

-----------------------------------------------------------------------------
(* trig_ops: the handlers work on the interpreter's stack through a        *)
(* WofStackAdapter and read numbers with as_numeric.  An argument or a     *)
(* result that is no double of the explored range is OutOfRange.           *)

\* WofStackAdapter: empty, top, pop and push on the stack it wraps
S_empty(stk) == stk = <<>>

S_top(stk) == stk[Len(stk)]

S_pop(stk) == SubSeq(stk, 1, Len(stk) - 1)

S_push(stk, v) == Append(stk, v)

\* the unary functions of <cmath> the plugin applies
TrigUnary ==
    {"sin", "cos", "tan", "asin", "acos", "atan", "sinh", "cosh", "tanh"}

\* f(x): exact where the result is a double of the explored range, NaN
\* where <cmath> reports a domain error or is given NaN
TrigFn(f, x) ==
    IF x = NaN THEN NaN
    ELSE IF ~InRange(x) THEN OutOfRange
    ELSE IF f \in {"asin", "acos"} /\ Abs(x.n) > x.d THEN NaN
    ELSE IF f \in {"sin", "tan", "asin", "atan", "sinh", "tanh"} /\ x.n = 0
    THEN RatZero
    ELSE IF f \in {"cos", "cosh"} /\ x.n = 0 THEN Rat(1, 1)
    ELSE IF f = "acos" /\ x = Rat(1, 1) THEN RatZero
    ELSE OutOfRange

\* std::atan2(y, x)
Atan2(y, x) ==
    IF x = NaN \/ y = NaN THEN NaN
    ELSE IF ~InRange(x) \/ ~InRange(y) THEN OutOfRange
    ELSE IF y.n = 0 /\ x.n >= 0 THEN RatZero
    ELSE OutOfRange

\* d * c for a constant c that is no double of the explored range
Scaled(d) ==
    IF d = NaN THEN NaN
    ELSE IF InRange(d) /\ d.n = 0 THEN RatZero
    ELSE OutOfRange

\* the plugin's pop_numeric: the number on top, read before it is popped
trig_pop_numeric(stk, ctx) ==
    IF S_empty(stk)
    THEN [stack |-> stk, err |-> "pop_numeric: stack underflow in " \o ctx,
          x |-> RatZero]
    ELSE LET d == as_numeric(S_top(stk))
         IN  IF d.err # NoErr
             THEN [stack |-> stk, err |-> d.err, x |-> RatZero]
             ELSE [stack |-> S_pop(stk), err |-> NoErr, x |-> d.x]

push_double(stk, x) == S_push(stk, make_double(x))

\* pushes the result without taking the argument off the stack
apply_unary_trigKeepsArgument(stk, name) ==
    LET p == trig_pop_numeric(stk, name)
    IN  IF p.err # NoErr THEN Raise(p.stack, p.err)
        ELSE Ok(push_double(stk, TrigFn(name, p.x)))

apply_unary_trig(stk, name) ==
    LET p == trig_pop_numeric(stk, name)
    IN  IF p.err # NoErr THEN Raise(p.stack, p.err)
        ELSE Ok(push_double(p.stack, TrigFn(name, p.x)))

apply_atan2(stk) ==
    LET y == trig_pop_numeric(stk, "atan2.y")
    IN  IF y.err # NoErr THEN Raise(y.stack, y.err)
        ELSE LET x == trig_pop_numeric(y.stack, "atan2.x")
             IN  IF x.err # NoErr THEN Raise(x.stack, x.err)
                 ELSE Ok(push_double(x.stack, Atan2(y.x, x.x)))

\* "pi" and "e": the constant, which is no double of the explored range
op_pi(stk) == Ok(push_double(stk, OutOfRange))

op_e(stk) == Ok(push_double(stk, OutOfRange))

op_deg_rad(stk) ==
    LET p == trig_pop_numeric(stk, "deg->rad")
    IN  IF p.err # NoErr THEN Raise(p.stack, p.err)
        ELSE Ok(push_double(p.stack, Scaled(p.x)))

op_rad_deg(stk) ==
    LET p == trig_pop_numeric(stk, "rad->deg")
    IN  IF p.err # NoErr THEN Raise(p.stack, p.err)
        ELSE Ok(push_double(p.stack, Scaled(p.x)))


\* the value the handlers of useful-docs/prophecy_ops.cpp push: a
\* default-constructed WofValue whose number is set afterwards
Divination == [DefaultValue EXCEPT !.value.d = OutOfRange]

\* "prophecy" of useful-docs/prophecy_ops.cpp: pushes 42.0
op_prophecy_docs(stk) == Ok(S_push(stk, Divination))

\* "oracle" of useful-docs/prophecy_ops.cpp: nothing on an empty stack,
\* else the offering is replaced by the divination
op_oracle_docs(stk) ==
    IF S_empty(stk) THEN Ok(stk)
    ELSE Ok(S_push(S_pop(stk), Divination))


-----------------------------------------------------------------------------
(* ops_symbolic_simplify_rules: the handlers take the two values on top    *)
(* off the interpreter's stack and push what the rule leaves.              *)

\* std::get<T> on the payload of a value whose active alternative is not T
BadVariantAccess == "bad_variant_access"

\* puts the two values back the other way round when the rule does not apply
op_simplify_sumSwapsBack(stk) ==
    IF Len(stk) < 2 THEN Ok(stk)
    ELSE LET second == stk[Len(stk)]
             first  == stk[Len(stk) - 1]
             below  == SubSeq(stk, 1, Len(stk) - 2)
         IN  IF first.type = "Symbol" /\ second.type = "Symbol"
             THEN IF first.value.index # "string" \/ second.value.index # "string"
                  THEN Raise(below, BadVariantAccess)
                  ELSE IF first.value.s = second.value.s
                  THEN Ok(below \o <<make_int(I64Of(2)), first>>)
                  ELSE Ok(below \o <<second, first>>)
             ELSE Ok(below \o <<second, first>>)

\* X + X -> 2 * X
op_simplify_sum(stk) ==
    IF Len(stk) < 2 THEN Ok(stk)
    ELSE LET second == stk[Len(stk)]
             first  == stk[Len(stk) - 1]
             below  == SubSeq(stk, 1, Len(stk) - 2)
         IN  IF first.type = "Symbol" /\ second.type = "Symbol"
             THEN IF first.value.index # "string" \/ second.value.index # "string"
                  THEN Raise(below, BadVariantAccess)
                  ELSE IF first.value.s = second.value.s
                  THEN Ok(below \o <<make_int(I64Of(2)), first>>)
                  ELSE Ok(below \o <<first, second>>)
             ELSE Ok(below \o <<first, second>>)

\* the rules on an Integer on top: X * 1 -> X, X + 0 -> X, X * 0 -> 0;
\* k is the Integer the rule looks for; the rule leaves X, or Integer 0
\* when zero is set
SimplifyInteger(stk, k, zero) ==
    IF Len(stk) < 2 THEN Ok(stk)
    ELSE LET top   == stk[Len(stk)]
             value == stk[Len(stk) - 1]
             below == SubSeq(stk, 1, Len(stk) - 2)
         IN  IF top.type = "Integer"
             THEN IF top.value.index # "int64"
                  THEN Raise(below, BadVariantAccess)
                  ELSE IF top.value.i = I64Of(k)
                  THEN Ok(Append(below, IF zero THEN make_int(I64Of(0))
                                        ELSE value))
                  ELSE Ok(below \o <<value, top>>)
             ELSE Ok(below \o <<value, top>>)

op_simplify_mul_one(stk) == SimplifyInteger(stk, 1, FALSE)

op_simplify_add_zero(stk) == SimplifyInteger(stk, 0, FALSE)

op_simplify_mul_zero(stk) == SimplifyInteger(stk, 0, TRUE)

BuiltinHandlers ==
    {"add", "sub", "mul", "div", "dup", "drop", "swap", "print", "dot_s"}

PluginHandlers == {"kanji_info", "oracle"}

RunHandler(h, stk) ==
    CASE h = "add"   -> op_add(stk)
      [] h = "sub"   -> op_sub(stk)
      [] h = "mul"   -> op_mul(stk)
      [] h = "div"   -> op_div(stk)
      [] h = "dup"   -> op_dup(stk)
      [] h = "drop"  -> op_drop(stk)
      [] h = "swap"  -> op_swap(stk)
      [] h = "print" -> op_print(stk)
      [] h = "dot_s" -> op_dot_s(stk)
      [] h \in PluginHandlers -> op_stub(stk)
      [] h = "prophecy" -> op_stub(stk)
      [] h \in TrigUnary -> apply_unary_trig(stk, h)
      [] h = "atan2"   -> apply_atan2(stk)
      [] h = "pi"      -> op_pi(stk)
      [] h = "simplify_sum"      -> op_simplify_sum(stk)
      [] h = "simplify_mul_one"  -> op_simplify_mul_one(stk)
      [] h = "simplify_add_zero" -> op_simplify_add_zero(stk)
      [] h = "simplify_mul_zero" -> op_simplify_mul_zero(stk)
      [] h = "prophecy_docs" -> op_prophecy_docs(stk)
      [] h = "oracle_docs"   -> op_oracle_docs(stk)
      [] h = "e"       -> op_e(stk)
      [] h = "deg->rad" -> op_deg_rad(stk)
      [] h = "rad->deg" -> op_rad_deg(stk)

-----------------------------------------------------------------------------
(* The operator registry *)

EmptyOps == [name \in {} |-> NoHandler]

\* empties the registry before it binds the name
register_opEvicts(registry, name, handler) == [x \in {name} |-> handler]

register_opKeepFirst(registry, name, handler) ==
    [x \in DOMAIN registry \cup {name} |->
        IF x \in DOMAIN registry THEN registry[x] ELSE handler]

register_op(registry, name, handler) ==
    [x \in DOMAIN registry \cup {name} |->
        IF x = name THEN handler ELSE registry[x]]

\* the register_op calls of the constructor, in order
BuiltinOps ==
    << <<T_plus, "add">>, <<T_minus, "sub">>, <<T_star, "mul">>,
       <<T_slash, "div">>, <<T_dup, "dup">>, <<T_drop, "drop">>,
       <<T_swap, "swap">>, <<T_print, "print">>, <<T_dot_s, "dot_s">> >>

RECURSIVE RegisterAll(_, _)
RegisterAll(registry, regs) ==
    IF regs = <<>> THEN registry
    ELSE RegisterAll(register_op(registry, Head(regs)[1], Head(regs)[2]),
                     Tail(regs))

Constructor == RegisterAll(EmptyOps, BuiltinOps)

-----------------------------------------------------------------------------
(* Plugin loading (the dlopen build).  What the file system holds at a     *)
(* path is a record: the file name, kind "missing", "regular" or           *)
(* "directory", and lib, what dlopen and dlsym find in it: "notlib" makes  *)
(* dlopen fail, "noentry" is a module without register_plugin, "throws" a  *)
(* module whose register_plugin throws before it registers anything, any   *)
(* other value names a module whose register_plugin makes the register_op  *)
(* calls of ModuleOps.  A handle is written as the name of the file it was *)
(* opened from.  An exception that leaves register_plugin is the event     *)
(* "throw" at the end of the log: nothing in the loader catches it.        *)

DotSo == <<".", "s", "o">>

DotDylib == <<".", "d", "y", "l", "i", "b">>

\* the register_op calls of the plugins' register_plugin functions
ModuleOps(lib) ==
    CASE lib = "kanji_ops"    -> << <<T_kanji_info, "kanji_info">> >>
      [] lib = "prophecy_ops" -> << <<T_oracle, "oracle">>,
                                    <<T_prophecy, "prophecy">> >>
      [] lib = "prophecy_docs" -> << <<T_prophecy, "prophecy_docs">>,
                                     <<T_oracle, "oracle_docs">> >>
      [] lib = "simplify_rules" ->
            << <<T_simplify_sum, "simplify_sum">>,
               <<T_simplify_mul_one, "simplify_mul_one">>,
               <<T_simplify_add_zero, "simplify_add_zero">>,
               <<T_simplify_mul_zero, "simplify_mul_zero">> >>
      [] lib = "trig_ops"     ->
            << <<T_pi, "pi">>, <<T_e, "e">>, <<T_sin, "sin">>,
               <<T_cos, "cos">>, <<T_tan, "tan">>, <<T_asin, "asin">>,
               <<T_acos, "acos">>, <<T_atan, "atan">>, <<T_atan2, "atan2">>,
               <<T_sinh, "sinh">>, <<T_cosh, "cosh">>, <<T_tanh, "tanh">>,
               <<T_deg_rad, "deg->rad">>, <<T_rad_deg, "rad->deg">> >>
      [] OTHER                -> <<>>

\* std::filesystem::path::extension of a file name: from the last dot on,
\* empty when there is no dot or the only dot begins the name
extension(name) ==
    LET dots == {i \in 1..Len(name) : name[i] = "."}
        last == IF dots = {} THEN 0
                ELSE CHOOSE i \in dots : \A j \in dots : j <= i
    IN  IF last <= 1 THEN <<>> ELSE SubSeq(name, last, Len(name))

\* the part of the interpreter that loading reads and writes
Loader(o, r, h, l) == [ops |-> o, regLog |-> r, handles |-> h, log |-> l]

Logged(st, events) == [st EXCEPT !.log = @ \o events]

\* opens what is at the path although nothing exists there
load_pluginOpensMissing(st, f) ==
    LET called == Logged(st, << <<"load_plugin", f.name>> >>)
    IN  IF f.kind # "regular" \/ f.lib = "notlib"
        THEN Logged(called, << <<"dlopen failed", f.name>> >>)
        ELSE IF f.lib = "noentry"
        THEN Logged(called, << <<"dlopen", f.name>>, <<"dlclose", f.name>> >>)
        ELSE [ops     |-> RegisterAll(st.ops, ModuleOps(f.lib)),
              regLog  |-> st.regLog \o ModuleOps(f.lib),
              handles |-> Append(st.handles, f.name),
              log     |-> called.log \o << <<"dlopen", f.name>>,
                                           <<"register_plugin", f.name>> >>]

\* an exception has left the last call and nothing has caught it
Thrown(st) == st.log # <<>> /\ st.log[Len(st.log)][1] = "throw"

\* load_plugin: a path where nothing exists is ignored; a file dlopen
\* rejects is reported; a module without register_plugin is reported and
\* closed; otherwise register_plugin is called and the handle is kept
load_plugin(st, f) ==
    LET called == Logged(st, << <<"load_plugin", f.name>> >>)
    IN  IF f.kind = "missing" THEN called
        ELSE IF f.kind # "regular" \/ f.lib = "notlib"
        THEN Logged(called, << <<"dlopen failed", f.name>> >>)
        ELSE IF f.lib = "noentry"
        THEN Logged(called, << <<"dlopen", f.name>>, <<"dlclose", f.name>> >>)
        ELSE IF f.lib = "throws"
        THEN Logged(called, << <<"dlopen", f.name>>,
                               <<"register_plugin", f.name>>,
                               <<"throw", f.name>> >>)
        ELSE [ops     |-> RegisterAll(st.ops, ModuleOps(f.lib)),
              regLog  |-> st.regLog \o ModuleOps(f.lib),
              handles |-> Append(st.handles, f.name),
              log     |-> called.log \o << <<"dlopen", f.name>>,
                                           <<"register_plugin", f.name>> >>]

\* takes every regular file for a module, whatever its suffix
RECURSIVE LoadEntriesAnySuffix(_, _)
LoadEntriesAnySuffix(st, entries) ==
    IF entries = <<>> THEN st
    ELSE LET f == Head(entries)
         IN  LoadEntriesAnySuffix(IF f.kind = "regular"
                                  THEN load_plugin(st, f)
                                  ELSE st,
                                  Tail(entries))

\* gives up the directory at the first candidate that does not load
RECURSIVE LoadEntriesStopAtFailure(_, _)
LoadEntriesStopAtFailure(st, entries) ==
    IF entries = <<>> THEN st
    ELSE LET f == Head(entries)
         IN  IF f.kind = "regular" /\ extension(f.name) \in {DotSo, DotDylib}
             THEN IF f.lib \in {"notlib", "noentry"}
                  THEN load_plugin(st, f)
                  ELSE LoadEntriesStopAtFailure(load_plugin(st, f),
                                                Tail(entries))
             ELSE LoadEntriesStopAtFailure(st, Tail(entries))

\* the loop of load_plugins over the entries in the order the directory
\* iterator yields them
RECURSIVE LoadEntries(_, _)
LoadEntries(st, entries) ==
    IF entries = <<>> \/ Thrown(st) THEN st
    ELSE LET f == Head(entries)
         IN  LoadEntries(IF /\ f.kind = "regular"
                            /\ extension(f.name) \in {DotSo, DotDylib}
                         THEN load_plugin(st, f)
                         ELSE st,
                         Tail(entries))

\* load_plugins: a directory is what the path names, with its entries;
\* a path that is missing or no directory is left alone
load_plugins(st, dir) ==
    LET called == Logged(st, << <<"load_plugins", dir.name>> >>)
    IN  IF dir.kind # "directory" THEN called
        ELSE LoadEntries(called, dir.entries)

\* the handles the destructor closes, one dlclose for each
RECURSIVE Closes(_)
Closes(handles) ==
    IF handles = <<>> THEN <<>>
    ELSE << <<"dlclose", Head(handles)>> >> \o Closes(Tail(handles))

-----------------------------------------------------------------------------
(* dispatch_token: the stack it leaves, the exception it throws (NoErr if  *)
(* none) and the handler it invoked (NoHandler if none)                    *)

IsPrefix(t, n) == Len(t) <= Len(n) /\ SubSeq(n, 1, Len(t)) = t

lookupPrefix(registry, token) ==
    IF \E n \in DOMAIN registry : IsPrefix(token, n)
    THEN registry[CHOOSE n \in DOMAIN registry : IsPrefix(token, n)]
    ELSE NoHandler

\* ops.find(token): the handler registered under exactly this name
lookup(registry, token) ==
    IF token \in DOMAIN registry THEN registry[token] ELSE NoHandler

Dispatched(stk, e, h) == [stack |-> stk, err |-> e, invoked |-> h]


\* looks the token up in the registry before it classifies it
dispatch_tokenRegistryFirst(stk, registry, token) ==
    IF lookup(registry, token) # NoHandler
    THEN LET r == RunHandler(lookup(registry, token), stk)
         IN  Dispatched(r.stack, r.err, lookup(registry, token))
    ELSE IF token # <<>> /\ token[1] = "#"
    THEN Dispatched(stk, NoErr, NoHandler)
    ELSE IF Len(token) >= 2 /\ token[1] = "\"" /\ token[Len(token)] = "\""
    THEN Dispatched(push(stk, make_string(SubSeq(token, 2, Len(token) - 1))),
                    NoErr, NoHandler)
    ELSE IF is_integer_token(token)
    THEN LET r == stoll(token)
         IN  IF r.ok THEN Dispatched(push(stk, make_int(r.v)), NoErr, NoHandler)
             ELSE Dispatched(stk, "stoll", NoHandler)
    ELSE IF is_float_token(token)
    THEN Dispatched(push(stk, make_double(stod(token))), NoErr, NoHandler)
    ELSE Dispatched(push(stk, make_symbol(token)), NoErr, NoHandler)

\* pushes the quoted token with its quotes
dispatch_tokenKeepsQuotes(stk, registry, token) ==
    IF token # <<>> /\ token[1] = "#"
    THEN Dispatched(stk, NoErr, NoHandler)
    ELSE IF Len(token) >= 2 /\ token[1] = "\"" /\ token[Len(token)] = "\""
    THEN Dispatched(push(stk, make_string(token)), NoErr, NoHandler)
    ELSE IF is_integer_token(token)
    THEN LET r == stoll(token)
         IN  IF r.ok THEN Dispatched(push(stk, make_int(r.v)), NoErr, NoHandler)
             ELSE Dispatched(stk, "stoll", NoHandler)
    ELSE IF is_float_token(token)
    THEN Dispatched(push(stk, make_double(stod(token))), NoErr, NoHandler)
    ELSE IF lookup(registry, token) # NoHandler
    THEN LET r == RunHandler(lookup(registry, token), stk)
         IN  Dispatched(r.stack, r.err, lookup(registry, token))
    ELSE Dispatched(push(stk, make_symbol(token)), NoErr, NoHandler)

dispatch_token(stk, registry, token) ==
    IF token # <<>> /\ token[1] = "#"
    THEN Dispatched(stk, NoErr, NoHandler)
    ELSE IF Len(token) >= 2 /\ token[1] = "\"" /\ token[Len(token)] = "\""
    THEN Dispatched(push(stk, make_string(SubSeq(token, 2, Len(token) - 1))),
                    NoErr, NoHandler)
    ELSE IF is_integer_token(token)
    THEN LET r == stoll(token)
         IN  IF r.ok THEN Dispatched(push(stk, make_int(r.v)), NoErr, NoHandler)
             ELSE Dispatched(stk, "stoll", NoHandler)
    ELSE IF is_float_token(token)
    THEN Dispatched(push(stk, make_double(stod(token))), NoErr, NoHandler)
    ELSE IF lookup(registry, token) # NoHandler
    THEN LET r == RunHandler(lookup(registry, token), stk)
         IN  Dispatched(r.stack, r.err, lookup(registry, token))
    ELSE Dispatched(push(stk, make_symbol(token)), NoErr, NoHandler)

\* tokenizes the line as it is given
exec_line_tokensUntrimmed(line) ==
    IF line = <<>> THEN <<>> ELSE simple_tokenize(line)

\* exec_line up to its loop: the tokens it is going to dispatch
exec_line_tokens(line) ==
    LET trimmed == trim(line)
    IN  IF trimmed = <<>> THEN <<>> ELSE simple_tokenize(trimmed)

\* exec_line as a function of the stack, the registry and the line: the
\* stack it leaves and the exception that ended it, if any
RECURSIVE DispatchAll(_, _, _)

\* after a token: its exception leaves exec_line, else the loop goes on
DispatchRest(r, registry, tokens) ==
    IF r.err # NoErr THEN Raise(r.stack, r.err)
    ELSE DispatchAll(r.stack, registry, tokens)

DispatchAll(stk, registry, tokens) ==
    IF tokens = <<>> THEN Ok(stk)
    ELSE DispatchRest(dispatch_token(stk, registry, Head(tokens)),
                      registry, Tail(tokens))

exec_line(stk, registry, l) == DispatchAll(stk, registry, exec_line_tokens(l))

\* the members of an interpreter that register_op, exec_line and
\* clear_stack read and write
Interpreter(stk, registry) == [stack |-> stk, ops |-> registry]

-----------------------------------------------------------------------------
(* The lines given to exec_line: every line of one token of T and every    *)
(* line of two to MaxToks tokens of P, the tokens separated by a blank,    *)
(* each with and without surrounding white space; and the blank lines      *)

RECURSIVE JoinLine(_)
JoinLine(ts) ==
    IF Len(ts) = 1 THEN ts[1]
    ELSE ts[1] \o <<" ">> \o JoinLine(Tail(ts))

\* the same lines without the variants in white space, and the empty line
PlainLines(T, P) ==
    T \cup {JoinLine(ts) : ts \in UNION {[1..n -> P] : n \in 2..MaxToks}}
      \cup {<<>>}

LinesOver(T, P) ==
    LET plain == T \cup {JoinLine(ts) :
                            ts \in UNION {[1..n -> P] : n \in 2..MaxToks}}
    IN  plain \cup {<<" ", "\t">> \o l \o <<"\t", " ">> : l \in plain}
              \cup {<<>>, <<" ", "\t">>}

CoreTokens ==
    {T_plus, T_minus, T_star, T_slash, T_dup, T_drop, T_swap, T_print,
     T_dot_s, T_0, T_2, T_half, T_str, T_hash, T_hashx, T_DUP, T_dot}

CorePairTokens == {T_hash, T_2, T_plus, T_DUP}

LitTokens ==
    {T_0, T_p5, T_007, T_m0, T_m17, T_42, T_half, T_max, T_max1, T_min,
     T_min1, T_20digits}

LitPairTokens == {T_42, T_m17, T_max1}

RegTokens == {T_dup, T_oracle, T_2}

RegNames == {T_dup, T_oracle}

CoreLines == PlainLines(CoreTokens, CorePairTokens)

LitLines == PlainLines(LitTokens, LitPairTokens)

RegLines == PlainLines(RegTokens, RegTokens)

\* the stack operators, and literals of every tag to run them on
StackTokens == {T_0, T_2, T_str, T_open, T_dup, T_drop, T_swap}

StackPairTokens == {T_dup, T_drop, T_swap}

StackLines == LinesOver(StackTokens, StackPairTokens)

SeqsUpTo(S, n) == UNION {[1..k -> S] : k \in 0..n}

\* every line of up to MaxLineLen characters of a letter, a double quote
\* and a blank; every token of up to MaxTokLen characters of signs, dots,
\* digits and a letter; a quoted operator name and a quoted number
TokChars == {"a", "\"", " "}

NumChars == {"+", "-", ".", "0", "1", "a"}

TextLines ==
    SeqsUpTo(TokChars, MaxLineLen) \cup SeqsUpTo(NumChars, MaxTokLen)
        \cup {T_qdup, T_q42, T_str}

\* what a read loop reads: a literal, an operator that fails on a short
\* stack, and main's "quit"
LoopLines == {T_0, T_plus, T_quit}

LoopInputs == SeqsUpTo(LoopLines, MaxLines)

\* a script file: whether it can be opened, and its lines
Files == [readable : {TRUE}, lines : LoopInputs]
             \cup [readable : {FALSE}, lines : {<<>>}]

FileAt(name, kind, lib) == [name |-> name, kind |-> kind, lib |-> lib]

\* the files of a plugins directory: two modules, a file dlopen rejects,
\* a module without register_plugin, a module under another suffix and a
\* directory named like a module
PlugFiles ==
    {FileAt(<<"k">> \o DotSo, "regular", "kanji_ops"),
     FileAt(<<"p">> \o DotDylib, "regular", "prophecy_ops"),
     FileAt(<<"b">> \o DotSo, "regular", "notlib"),
     FileAt(<<"n">> \o DotSo, "regular", "noentry"),
     FileAt(<<"k", ".", "d", "l", "l">>, "regular", "kanji_ops"),
     FileAt(<<"d">> \o DotSo, "directory", "notlib")}

MissingFile == FileAt(<<"m">> \o DotSo, "missing", "notlib")

PlugPaths == PlugFiles \cup {MissingFile}

\* the listings of a directory: up to MaxEntries files, in any order
Listings ==
    {es \in SeqsUpTo(PlugFiles, MaxEntries) :
        \A i, j \in 1..Len(es) : i # j => es[i] # es[j]}

T_plugins == <<"p", "l", "u", "g", "i", "n", "s">>

DirAt(kind, entries) == [name |-> T_plugins, kind |-> kind, entries |-> entries]

NoDir == DirAt("missing", <<>>)

PlugDirs ==
    {DirAt("directory", es) : es \in Listings}
        \cup {NoDir, DirAt("regular", <<>>)}

PlugLines == {T_kanji_info, T_oracle}

\* the lines given to two interpreters, and the name one of them rebinds
TwoLines == {T_0, T_2, T_dup, JoinLine(<<T_2, T_dup>>), T_plus}

TwoNames == {T_dup}

PeerLines == {T_2, T_dup}

\* values of every tag, with and without a unit, for the comparisons
EqPlain ==
    {make_int(I64Of(2)), make_double(Rat(2, 1)), make_double(NaN),
     make_string(<<"a">>), make_symbol(<<"a">>)}

EqUnits == {<<<<"m">>, Rat(1, 1)>>, <<<<"m">>, Rat(2, 1)>>, <<<<"s">>, Rat(1, 1)>>}

EqValues == EqPlain \cup {WithUnit(w, u[1], u[2]) : w \in EqPlain, u \in EqUnits}


\* the module built from trig_ops.cpp
TrigFile == FileAt(<<"t">> \o DotSo, "regular", "trig_ops")

\* the lines of run_tests' trigonometry section
TrigTestLines ==
    {T_pi, T_e, JoinLine(<<T_pi, T_2, T_slash, T_sin>>), JoinLine(<<T_0, T_cos>>)}

TrigLines ==
    TrigTestLines \cup
    {T_0, T_2, T_str, T_drop,
     T_sin, T_cos, T_tan, T_asin, T_acos, T_atan, T_sinh, T_cosh, T_tanh}


\* names that are comments or literals to dispatch_token
PrecNames == {T_hashx, T_qdup, T_42, T_m17, T_half}

PrecLines == PrecNames \cup {JoinLine(<<T_2, n>>) : n \in PrecNames}


\* a directory with a module whose register_plugin throws
ThrowFiles ==
    {FileAt(<<"k">> \o DotSo, "regular", "kanji_ops"),
     FileAt(<<"x">> \o DotSo, "regular", "throws"),
     FileAt(<<"p">> \o DotDylib, "regular", "prophecy_ops")}

ThrowDirs ==
    {DirAt("directory", es) :
        es \in {l \in SeqsUpTo(ThrowFiles, MaxEntries) :
                  \A i, j \in 1..Len(l) : i # j => l[i] # l[j]}}


\* a directory with the two modules that register "oracle" and "prophecy"
OrderFiles ==
    {FileAt(<<"k">> \o DotSo, "regular", "kanji_ops"),
     FileAt(<<"p">> \o DotSo, "regular", "prophecy_ops"),
     FileAt(<<"q">> \o DotSo, "regular", "prophecy_docs")}

\* the orders a directory iterator may yield a set of entries in
Orders(S) ==
    {es \in [1..Cardinality(S) -> S] : \A i, j \in 1..Len(es) : i # j => es[i] # es[j]}

OrderDirs == {DirAt("directory", es) : es \in UNION {Orders(S) : S \in SUBSET OrderFiles}}

OrderLines == {T_oracle, JoinLine(<<T_2, T_oracle>>), T_prophecy}


\* the lines whose execution is followed to its end
LiveTokens == {T_0, T_2, T_slash, T_dup, T_drop, T_str, T_hashx}

LivePairTokens == {T_2, T_slash, T_drop}

LiveLines ==
    PlainLines(LiveTokens, LivePairTokens)
        \cup {JoinLine(<<T_2, T_0, T_slash>>), JoinLine(<<T_2, T_dup, T_plus>>)}


\* the module built from the simplification rules
SimplifyFile == FileAt(<<"s">> \o DotSo, "regular", "simplify_rules")

SimplifyLines ==
    {T_x, T_y, T_0, T_1, T_drop,
     T_simplify_sum, T_simplify_mul_one, T_simplify_add_zero,
     T_simplify_mul_zero,
     JoinLine(<<T_x, T_x, T_simplify_sum>>),
     JoinLine(<<T_x, T_y, T_simplify_sum>>)}

MainLines == {T_kanji_info, T_plus, T_quit}

MainInputs == SeqsUpTo(MainLines, MaxToks)

-----------------------------------------------------------------------------
(* The state machine *)

\* the stacks the model explores
InModel(stk) ==
    /\ Len(stk) <= MaxDepth
    /\ \A i \in 1..Len(stk) : stk[i].type = "Double" => InRange(stk[i].value.d)

Init ==
    /\ stack = <<>>
    /\ ops = Constructor
    /\ rest = <<>>
    /\ err = NoErr
    /\ lastTok = <<>>
    /\ invoked = NoHandler
    /\ inComment = FALSE
    /\ regLog = <<>>
    /\ curLine = <<>>
    /\ stack0 = <<>>
    /\ loop = "idle"
    /\ input = <<>>
    /\ plugin_handles = <<>>
    /\ plugLog = <<>>
    /\ curDir = NoDir
    /\ destroyed = FALSE
    /\ begun = FALSE
    /\ peer = Interpreter(<<>>, Constructor)

\* exec_script swallows the exception and goes on
AfterThrowSwallowed(l) ==
    CASE l = "repl"   -> "repl"
      [] l = "main"   -> "terminated"
      [] l = "tests0" -> "terminated"
      [] l = "tests"  -> "tests"
      [] l = "script" -> "script"
      [] OTHER        -> "idle"

\* where an exception thrown by exec_line goes: repl catches and reports it,
\* main lets it leave the process, and so does run_tests for its first line;
\* the test calls of run_tests catch and report it, exec_script lets it
\* through to its caller
AfterThrow(l) ==
    CASE l = "repl"   -> "repl"
      [] l = "main"   -> "terminated"
      [] l = "tests0" -> "terminated"
      [] l = "tests"  -> "tests"
      [] OTHER        -> "idle"

\* exec_line is called: the line is trimmed and tokenized
ExecLineBegin(l) ==
    /\ rest = <<>>
    /\ rest' = exec_line_tokens(l)
    /\ err' = NoErr
    /\ lastTok' = <<>>
    /\ invoked' = NoHandler
    /\ inComment' = FALSE
    /\ begun' = TRUE
    /\ UNCHANGED <<stack, ops, regLog, plugins, peer>>


\* dispatches the token that raised again instead of leaving the loop
DispatchNextRetries ==
    /\ rest # <<>>
    /\ LET r == dispatch_token(stack, ops, Head(rest))
       IN  /\ InModel(r.stack)
           /\ stack' = r.stack
           /\ err' = r.err
           /\ invoked' = r.invoked
           /\ rest' = IF r.err = NoErr THEN Tail(rest) ELSE rest
           /\ loop' = IF r.err = NoErr THEN loop ELSE AfterThrow(loop)
    /\ lastTok' = Head(rest)
    /\ inComment' = (inComment \/ Head(rest)[1] = "#")
    /\ UNCHANGED <<ops, regLog, curLine, stack0, input, plugins, begun, peer>>

\* one iteration of exec_line's loop: dispatch_token on the next token; an
\* exception leaves the loop and exec_line
DispatchNext ==
    /\ rest # <<>>
    /\ LET r == dispatch_token(stack, ops, Head(rest))
       IN  /\ InModel(r.stack)
           /\ stack' = r.stack
           /\ err' = r.err
           /\ invoked' = r.invoked
           /\ rest' = IF r.err = NoErr THEN Tail(rest) ELSE <<>>
           /\ loop' = IF r.err = NoErr THEN loop ELSE AfterThrow(loop)
    /\ lastTok' = Head(rest)
    /\ inComment' = (inComment \/ Head(rest)[1] = "#")
    /\ UNCHANGED <<ops, regLog, curLine, stack0, input, plugins, begun, peer>>


\* the same iteration where the doubles the plugins compute stay on the
\* stack, whatever their value
DispatchNextAnyDouble ==
    /\ rest # <<>>
    /\ LET r == dispatch_token(stack, ops, Head(rest))
       IN  /\ Len(r.stack) <= MaxDepth
           /\ stack' = r.stack
           /\ err' = r.err
           /\ invoked' = r.invoked
           /\ rest' = IF r.err = NoErr THEN Tail(rest) ELSE <<>>
           /\ loop' = IF r.err = NoErr THEN loop ELSE AfterThrow(loop)
    /\ lastTok' = Head(rest)
    /\ inComment' = (inComment \/ Head(rest)[1] = "#")
    /\ UNCHANGED <<ops, regLog, curLine, stack0, input, plugins, begun, peer>>

\* register_op, called between two lines
RegisterOp(name, handler) ==
    /\ rest = <<>>
    /\ Len(regLog) < MaxRegs
    /\ ops' = register_op(ops, name, handler)
    /\ regLog' = Append(regLog, <<name, handler>>)
    /\ UNCHANGED <<stack, rest, err, lastTok, invoked, inComment,
                   curLine, stack0, loop, input, plugins, begun, peer>>

\* clear_stack, called between two lines
ClearStack ==
    /\ rest = <<>>
    /\ loop = "idle"
    /\ stack' = <<>>
    /\ UNCHANGED <<ops, rest, err, lastTok, invoked, inComment, regLog,
                   curLine, stack0, loop, input, plugins, begun, peer>>

\* the interpreter's part that plugin loading reads and writes
LoaderState == Loader(ops, regLog, plugin_handles, plugLog)

Loaded(st) ==
    /\ ops' = st.ops
    /\ regLog' = st.regLog
    /\ plugin_handles' = st.handles
    /\ plugLog' = st.log

\* the number of load_plugin and load_plugins calls in a log
Calls(log) ==
    Cardinality({i \in 1..Len(log) :
                    log[i][1] \in {"load_plugin", "load_plugins"}})

\* load_plugin, called between two lines
LoadPlugin(f) ==
    /\ ~destroyed
    /\ rest = <<>>
    /\ loop = "idle"
    /\ Calls(plugLog) < MaxLoads
    /\ Loaded(load_plugin(LoaderState, f))
    /\ err' = IF Thrown(load_plugin(LoaderState, f))
              THEN "register_plugin" ELSE NoErr
    /\ lastTok' = <<>>
    /\ invoked' = NoHandler
    /\ inComment' = FALSE
    /\ UNCHANGED <<stack, rest, curLine, stack0, loop, input, curDir,
                   destroyed, begun, peer>>

\* load_plugins, called between two lines
LoadPlugins(dir) ==
    /\ ~destroyed
    /\ rest = <<>>
    /\ loop = "idle"
    /\ Calls(plugLog) < MaxLoads
    /\ Loaded(load_plugins(LoaderState, dir))
    /\ curDir' = dir
    /\ err' = IF Thrown(load_plugins(LoaderState, dir))
              THEN "register_plugin" ELSE NoErr
    /\ lastTok' = <<>>
    /\ invoked' = NoHandler
    /\ inComment' = FALSE
    /\ UNCHANGED <<stack, rest, curLine, stack0, loop, input, destroyed, begun, peer>>

\* leaks the handles: clears the list without closing them
DestructorLeaks ==
    /\ ~destroyed
    /\ rest = <<>>
    /\ loop = "idle"
    /\ plugin_handles' = <<>>
    /\ destroyed' = TRUE
    /\ UNCHANGED <<stack, ops, rest, err, lastTok, invoked, inComment, regLog,
                   curLine, stack0, loop, input, plugLog, curDir, begun, peer>>

\* the destructor: dlclose on every retained handle, then the list is
\* cleared
Destructor ==
    /\ ~destroyed
    /\ rest = <<>>
    /\ loop = "idle"
    /\ plugLog' = plugLog \o Closes(plugin_handles)
    /\ plugin_handles' = <<>>
    /\ destroyed' = TRUE
    /\ UNCHANGED <<stack, ops, rest, err, lastTok, invoked, inComment, regLog,
                   curLine, stack0, loop, input, curDir, begun, peer>>

\* push, called by the embedding program or by a plugin's handler
Push(v) ==
    /\ rest = <<>>
    /\ loop = "idle"
    /\ Len(stack) < MaxDepth
    /\ stack' = push(stack, v)
    /\ UNCHANGED <<ops, rest, err, lastTok, invoked, inComment, regLog,
                   curLine, stack0, loop, input, plugins, begun, peer>>

\* writes the registry of this interpreter as well, as a registry shared
\* by the process would be written
PeerRegisterOpShared(name, handler) ==
    /\ rest = <<>>
    /\ loop = "idle"
    /\ peer' = [peer EXCEPT !.ops = register_op(@, name, handler)]
    /\ ops' = register_op(ops, name, handler)
    /\ UNCHANGED <<stack, rest, err, lastTok, invoked, inComment, regLog,
                   curLine, stack0, loop, input, plugins, begun>>

\* register_op called on the second interpreter
PeerRegisterOp(name, handler) ==
    /\ rest = <<>>
    /\ loop = "idle"
    /\ peer' = [peer EXCEPT !.ops = register_op(@, name, handler)]
    /\ UNCHANGED <<stack, ops, rest, err, lastTok, invoked, inComment, regLog,
                   curLine, stack0, loop, input, plugins, begun>>

\* the second interpreter keeps the stack its exec_line call leaves
PeerReturns(r) ==
    /\ InModel(r.stack)
    /\ peer' = [peer EXCEPT !.stack = r.stack]

\* exec_line called on the second interpreter, from call to return or throw
PeerExecLine(l) ==
    /\ rest = <<>>
    /\ loop = "idle"
    /\ PeerReturns(exec_line(peer.stack, peer.ops, l))
    /\ UNCHANGED <<stack, ops, rest, err, lastTok, invoked, inComment, regLog,
                   curLine, stack0, loop, input, plugins, begun>>

\* clear_stack called on the second interpreter
PeerClearStack ==
    /\ rest = <<>>
    /\ loop = "idle"
    /\ peer' = [peer EXCEPT !.stack = <<>>]
    /\ UNCHANGED <<stack, ops, rest, err, lastTok, invoked, inComment, regLog,
                   curLine, stack0, loop, input, plugins, begun>>

\* the history of an exec_line call: its line and the stack it found
Recorded(l) ==
    /\ curLine' = l
    /\ stack0' = stack

\* exec_line called by the embedding program on one of the lines of L
ExecLine(L) ==
    /\ loop = "idle"
    /\ \E l \in L : ExecLineBegin(l)
    /\ UNCHANGED <<curLine, stack0, loop, input>>

\* the same, with its history
ExecLineRecorded(L) ==
    /\ loop = "idle"
    /\ \E l \in L : ExecLineBegin(l) /\ Recorded(l)
    /\ UNCHANGED <<loop, input>>

\* repl() is called with the given lines waiting on std::cin
Repl(lines) ==
    /\ loop = "idle"
    /\ rest = <<>>
    /\ loop' = "repl"
    /\ input' = lines
    /\ err' = NoErr
    /\ lastTok' = <<>>
    /\ invoked' = NoHandler
    /\ inComment' = FALSE
    /\ UNCHANGED <<stack, ops, rest, regLog, curLine, stack0, plugins, begun, peer>>

\* one turn of repl's loop: end of input breaks, a line is executed
ReplRead ==
    /\ loop = "repl"
    /\ rest = <<>>
    /\ IF input = <<>>
       THEN /\ loop' = "idle"
            /\ UNCHANGED <<stack, ops, rest, err, lastTok, invoked, inComment,
                           regLog, curLine, stack0, input, plugins, begun, peer>>
       ELSE /\ ExecLineBegin(Head(input))
            /\ Recorded(Head(input))
            /\ input' = Tail(input)
            /\ UNCHANGED loop

\* calls load_plugins a second time
StartedLoadsTwice(dir) ==
    LET new == Loader(Constructor, <<>>, <<>>, <<>>)
    IN  IF dir.kind # "missing"
        THEN load_plugins(load_plugins(new, dir), dir)
        ELSE new

\* what main and run_tests do before their first line: a new interpreter,
\* and load_plugins when something exists at the plugins path
Started(dir) ==
    LET new == Loader(Constructor, <<>>, <<>>, <<>>)
    IN  IF dir.kind # "missing" THEN load_plugins(new, dir) ELSE new

\* main without arguments: a new interpreter, the plugins directory, then
\* the read loop on std::cin
Main(lines, dir) ==
    /\ loop = "idle"
    /\ rest = <<>>
    /\ stack' = <<>>
    /\ Loaded(Started(dir))
    /\ curDir' = dir
    /\ destroyed' = FALSE
    /\ begun' = FALSE
    /\ err' = NoErr
    /\ lastTok' = <<>>
    /\ invoked' = NoHandler
    /\ inComment' = FALSE
    /\ curLine' = <<>>
    /\ stack0' = <<>>
    /\ loop' = "main"
    /\ input' = lines
    /\ UNCHANGED <<rest, peer>>

\* one turn of main's loop: end of input and "quit"/"exit" end the
\* process, "help" and "benchmark" are served by main, any other line goes
\* to exec_line
MainRead ==
    /\ loop = "main"
    /\ rest = <<>>
    /\ IF input = <<>>
       THEN /\ loop' = "exited"
            /\ UNCHANGED <<stack, ops, rest, err, lastTok, invoked, inComment,
                           regLog, curLine, stack0, input, plugins, begun, peer>>
       ELSE IF Head(input) \in {T_quit, T_exit}
       THEN /\ loop' = "exited"
            /\ input' = Tail(input)
            /\ UNCHANGED <<stack, ops, rest, err, lastTok, invoked, inComment,
                           regLog, curLine, stack0, plugins, begun, peer>>
       ELSE IF Head(input) \in {T_help, T_benchmark}
       THEN /\ input' = Tail(input)
            /\ UNCHANGED <<stack, ops, rest, err, lastTok, invoked, inComment,
                           regLog, curLine, stack0, loop, plugins, begun, peer>>
       ELSE /\ ExecLineBegin(Head(input))
            /\ Recorded(Head(input))
            /\ input' = Tail(input)
            /\ UNCHANGED loop

\* run_tests: a new interpreter, the plugins directory, then the lines of
\* the tests; the list of the tests is fixed in the code and is any list
\* of the model's lines here
RunTests(lines, dir) ==
    /\ loop = "idle"
    /\ rest = <<>>
    /\ stack' = <<>>
    /\ Loaded(Started(dir))
    /\ curDir' = dir
    /\ destroyed' = FALSE
    /\ begun' = FALSE
    /\ err' = NoErr
    /\ lastTok' = <<>>
    /\ invoked' = NoHandler
    /\ inComment' = FALSE
    /\ curLine' = <<>>
    /\ stack0' = <<>>
    /\ loop' = "tests0"
    /\ input' = lines
    /\ UNCHANGED <<rest, peer>>

\* run_tests calls exec_line("stack_slayer") outside the try of its tests
TestsFirst ==
    /\ loop = "tests0"
    /\ rest = <<>>
    /\ ~begun
    /\ ExecLineBegin(T_stack_slayer)
    /\ Recorded(T_stack_slayer)
    /\ UNCHANGED <<loop, input>>

\* one test of run_tests: exec_line inside try/catch; after the last test
\* run_tests returns and main returns 0
TestsRead ==
    /\ (loop = "tests0" /\ begun) \/ loop = "tests"
    /\ rest = <<>>
    /\ IF input = <<>>
       THEN /\ loop' = "exited"
            /\ UNCHANGED <<stack, ops, rest, err, lastTok, invoked, inComment,
                           regLog, curLine, stack0, input, plugins, begun, peer>>
       ELSE /\ ExecLineBegin(Head(input))
            /\ Recorded(Head(input))
            /\ input' = Tail(input)
            /\ loop' = "tests"

\* clears the stack before it throws
ExecScriptClearsStack(file) ==
    /\ loop = "idle"
    /\ rest = <<>>
    /\ lastTok' = <<>>
    /\ invoked' = NoHandler
    /\ inComment' = FALSE
    /\ IF ~file.readable
       THEN /\ err' = "failed to open script"
            /\ stack' = <<>>
            /\ UNCHANGED <<loop, input>>
       ELSE /\ err' = NoErr
            /\ loop' = "script"
            /\ input' = file.lines
            /\ UNCHANGED stack
    /\ UNCHANGED <<ops, rest, regLog, curLine, stack0, plugins, begun, peer>>

\* exec_script is called: a file that cannot be opened makes it throw
\* before it reads anything
ExecScript(file) ==
    /\ loop = "idle"
    /\ rest = <<>>
    /\ lastTok' = <<>>
    /\ invoked' = NoHandler
    /\ inComment' = FALSE
    /\ IF ~file.readable
       THEN /\ err' = "failed to open script"
            /\ UNCHANGED <<loop, input>>
       ELSE /\ err' = NoErr
            /\ loop' = "script"
            /\ input' = file.lines
    /\ UNCHANGED <<stack, ops, rest, regLog, curLine, stack0, plugins, begun, peer>>

\* one turn of exec_script's loop: end of file returns, a line is executed
ScriptRead ==
    /\ loop = "script"
    /\ rest = <<>>
    /\ IF input = <<>>
       THEN /\ loop' = "idle"
            /\ UNCHANGED <<stack, ops, rest, err, lastTok, invoked, inComment,
                           regLog, curLine, stack0, input, plugins, begun, peer>>
       ELSE /\ ExecLineBegin(Head(input))
            /\ Recorded(Head(input))
            /\ input' = Tail(input)
            /\ UNCHANGED loop

ExecLineCore == ExecLine(CoreLines)

ExecLineLit == ExecLine(LitLines)

ExecLineReg == ExecLine(RegLines)

ExecLineStack == ExecLineRecorded(StackLines)

\* the lines of text are run on an empty stack
ExecLineText == stack = <<>> /\ ExecLineRecorded(TextLines)

Register == \E name \in RegNames, handler \in PluginHandlers :
                RegisterOp(name, handler)

ReplCall == \E lines \in LoopInputs : Repl(lines)

\* main where there is no plugins directory
MainCall == \E lines \in LoopInputs : Main(lines, NoDir)

ExecScriptCall == \E file \in Files : ExecScript(file)

Next == ExecLineCore \/ DispatchNext

Spec == Init /\ [][Next]_vars

NextLit == ExecLineLit \/ DispatchNext

SpecLit == Init /\ [][NextLit]_vars

NextReg == ExecLineReg \/ DispatchNext \/ Register

SpecReg == Init /\ [][NextReg]_vars

NextStack == ExecLineStack \/ DispatchNext

SpecStack == Init /\ [][NextStack]_vars

NextText == ExecLineText \/ DispatchNext \/ ClearStack

SpecText == Init /\ [][NextText]_vars

NextLoop ==
    \/ DispatchNext
    \/ ReplCall
    \/ ReplRead
    \/ MainCall
    \/ MainRead
    \/ ExecScriptCall
    \/ ScriptRead

SpecLoop == Init /\ [][NextLoop]_vars

LoadPluginCall == \E f \in PlugPaths : LoadPlugin(f)

LoadPluginsCall == \E dir \in PlugDirs : LoadPlugins(dir)

\* the lines of the plugin operators are run on an empty stack
ExecLinePlug == ~destroyed /\ stack = <<>> /\ ExecLine(PlugLines)

ClearStackPlug == ~destroyed /\ ClearStack

\* the embedding program binds a plugin's name to another handler
RegisterPlug == ~destroyed /\ regLog = <<>> /\ RegisterOp(T_oracle, "kanji_info")

NextPlug ==
    \/ LoadPluginCall
    \/ LoadPluginsCall
    \/ ExecLinePlug
    \/ DispatchNext
    \/ ClearStackPlug
    \/ RegisterPlug
    \/ Destructor

SpecPlug == Init /\ [][NextPlug]_vars

PushValue == \E v \in EqValues : Push(v)

NextEq == PushValue \/ ClearStack

SpecEq == Init /\ [][NextEq]_vars

ExecLineTwo == ExecLineRecorded(TwoLines)

RegisterTwo ==
    /\ regLog = <<>>
    /\ \E name \in TwoNames : RegisterOp(name, "oracle")

PeerExecLineCall == \E l \in PeerLines : PeerExecLine(l)

PeerRegister ==
    /\ peer.ops = Constructor
    /\ \E name \in TwoNames : PeerRegisterOp(name, "oracle")

NextTwo ==
    \/ ExecLineTwo
    \/ DispatchNext
    \/ RegisterTwo
    \/ ClearStack
    \/ PeerExecLineCall
    \/ PeerRegister
    \/ PeerClearStack

SpecTwo == Init /\ [][NextTwo]_vars


LoadTrig == LoadPlugin(TrigFile)

ExecLineTrig == T_pi \in DOMAIN ops /\ ExecLineRecorded(TrigLines)

NextTrig == LoadTrig \/ ExecLineTrig \/ DispatchNextAnyDouble

SpecTrig == Init /\ [][NextTrig]_vars


ExecLinePrec == ExecLine(PrecLines)

RegisterPrec == \E name \in PrecNames : RegisterOp(name, "drop")

NextPrec == ExecLinePrec \/ DispatchNext \/ RegisterPrec

SpecPrec == Init /\ [][NextPrec]_vars


LoadPluginThrow == \E f \in ThrowFiles : LoadPlugin(f)

LoadPluginsThrow == \E dir \in ThrowDirs : LoadPlugins(dir)

NextThrow ==
    \/ LoadPluginThrow
    \/ LoadPluginsThrow
    \/ ExecLinePlug
    \/ DispatchNext
    \/ Destructor

SpecThrow == Init /\ [][NextThrow]_vars


LoadPluginsOrder == \E dir \in OrderDirs : LoadPlugins(dir)

ExecLineOrder == ~destroyed /\ stack = <<>> /\ ExecLine(OrderLines)

NextOrder ==
    \/ LoadPluginsOrder
    \/ ExecLineOrder
    \/ DispatchNextAnyDouble
    \/ Destructor

SpecOrder == Init /\ [][NextOrder]_vars


\* the stacks the line goes through are stacks the model explores
RECURSIVE StaysInModel(_, _, _)
StaysInModel(stk, registry, tokens) ==
    IF tokens = <<>> THEN TRUE
    ELSE LET r == dispatch_token(stk, registry, Head(tokens))
         IN  /\ InModel(r.stack)
             /\ IF r.err # NoErr THEN TRUE
                ELSE StaysInModel(r.stack, registry, Tail(tokens))

ExecLineLive ==
    /\ loop = "idle"
    /\ \E l \in LiveLines :
          /\ StaysInModel(stack, ops, exec_line_tokens(l))
          /\ ExecLineBegin(l)
          /\ Recorded(l)
    /\ UNCHANGED <<loop, input>>

NextLive == ExecLineLive \/ DispatchNext

\* exec_line's loop runs on the calling thread: an iteration that can be
\* made is made
SpecLive == Init /\ [][NextLive]_vars /\ WF_vars(DispatchNext)


LoadSimplify == LoadPlugin(SimplifyFile)

ExecLineSimplify ==
    T_simplify_sum \in DOMAIN ops /\ ExecLineRecorded(SimplifyLines)

NextSimplify == LoadSimplify \/ ExecLineSimplify \/ DispatchNext

SpecSimplify == Init /\ [][NextSimplify]_vars

MainPlugCall == \E lines \in MainInputs, dir \in PlugDirs : Main(lines, dir)

RunTestsCall == \E lines \in MainInputs, dir \in PlugDirs : RunTests(lines, dir)

NextMain ==
    \/ MainPlugCall
    \/ MainRead
    \/ RunTestsCall
    \/ TestsFirst
    \/ TestsRead
    \/ DispatchNext

SpecMain == Init /\ [][NextMain]_vars

-----------------------------------------------------------------------------
(* Vocabulary of the properties *)

Top(stk) == stk[Len(stk)]

Second(stk) == stk[Len(stk) - 1]

DropTop(stk, k) == SubSeq(stk, 1, Len(stk) - k)

BeginsWithHash(t) == t # <<>> /\ t[1] = "#"

WrappedInQuotes(t) == Len(t) >= 2 /\ t[1] = "\"" /\ t[Len(t)] = "\""

\* the exec_line loop is about to dispatch Head(rest)
Dispatching == rest # <<>>

\* the value of a numeric WofValue as a fraction
NumOf(w) ==
    IF w.type = "Integer"
    THEN [n |-> IF w.value.i.neg THEN -w.value.i.mag[3] ELSE w.value.i.mag[3],
          d |-> 1]
    ELSE w.value.d

IsZeroValue(w) ==
    \/ w.type = "Integer" /\ w.value.i.mag = ZeroMag
    \/ w.type = "Double" /\ w.value.d.n = 0

HandlerErrors ==
    {"stack underflow", "pop_numeric: value is not numeric",
     "division by zero", "dup requires at least one value on the stack",
     "drop requires at least one value on the stack",
     "swap requires at least two values on the stack"}

-----------------------------------------------------------------------------
(* C1.  As stated: every token that is no quoted string, no integer and no *)
(* float literal and is not exactly a registered name makes dispatch push  *)
(* exactly one Symbol with the token's text, the rest of the stack         *)
(* unchanged, no handler invoked.  A token beginning with '#' meets the    *)
(* premise and is discarded.                                               *)
C1_UnknownTokenPushesSymbol_AsStated ==
    [][(/\ Dispatching
        /\ ~WrappedInQuotes(Head(rest))
        /\ ~is_integer_token(Head(rest))
        /\ ~is_float_token(Head(rest))
        /\ Head(rest) \notin DOMAIN ops)
       => /\ stack' = Append(stack, make_symbol(Head(rest)))
          /\ invoked' = NoHandler
          /\ err' = NoErr]_vars

(* C1, amended: the same for every such token that does not begin with     *)
(* '#': exactly one Symbol with the token's text is pushed on the          *)
(* unchanged stack, no handler runs, nothing is raised and the line goes   *)
(* on.                                                                     *)
C1_UnknownTokenPushesSymbol ==
    [][(/\ Dispatching
        /\ ~BeginsWithHash(Head(rest))
        /\ ~WrappedInQuotes(Head(rest))
        /\ ~is_integer_token(Head(rest))
        /\ ~is_float_token(Head(rest))
        /\ Head(rest) \notin DOMAIN ops)
       => /\ stack' = Append(stack, make_symbol(Head(rest)))
          /\ invoked' = NoHandler
          /\ err' = NoErr
          /\ rest' = Tail(rest)]_vars

\* "." (a prefix of the registered ".s") was dispatched below another value
C1_Witness ==
    /\ lastTok = T_dot
    /\ Len(stack) >= 2
    /\ Top(stack) = make_symbol(T_dot)
    /\ invoked = NoHandler
    /\ err = NoErr

(* C2.  Once a token beginning with '#' is met on a line, neither it nor   *)
(* any later token of the line pushes a value or invokes a handler.        *)
C2_NothingEvaluatedAfterHash ==
    [][(Dispatching /\ (inComment \/ BeginsWithHash(Head(rest))))
       => stack' = stack /\ invoked' = NoHandler]_vars

(* C3.  When a handler raises, no later token of the line is dispatched    *)
(* and the stack is exactly as the tokens before the failing one left it.  *)
C3_FailingTokenChangesNothing ==
    [][(Dispatching /\ err' \in HandlerErrors)
       => rest' = <<>> /\ stack' = stack]_vars

(* C4.  "/" on two numeric operands with a zero divisor (Integer 0 or      *)
(* Float 0.0) on top raises and pushes no quotient: the stack is left      *)
(* without the two operands and with nothing new.                          *)
C4_DivisionByZeroPushesNothing ==
    [][(/\ Dispatching
        /\ Head(rest) = T_slash
        /\ ops[T_slash] = "div"
        /\ Len(stack) >= 2
        /\ is_numeric(Top(stack))
        /\ is_numeric(Second(stack))
        /\ IsZeroValue(Top(stack)))
       => /\ err' = "division by zero"
          /\ stack' = DropTop(stack, 2)
          /\ rest' = <<>>]_vars

\* "/" has just failed on a zero divisor
C4_Witness ==
    /\ lastTok = T_slash
    /\ invoked = "div"
    /\ err = "division by zero"

(* C5.  dup and drop on an empty stack and swap on a stack of depth 0 or 1 *)
(* raise and leave the stack as it was.                                    *)
C5_StackOpsRaiseOnShortStack ==
    [][(/\ Dispatching
        /\ \/ Head(rest) = T_dup /\ ops[T_dup] = "dup" /\ Len(stack) = 0
           \/ Head(rest) = T_drop /\ ops[T_drop] = "drop" /\ Len(stack) = 0
           \/ Head(rest) = T_swap /\ ops[T_swap] = "swap" /\ Len(stack) <= 1)
       => /\ err' \in HandlerErrors
          /\ stack' = stack
          /\ rest' = <<>>]_vars

\* swap has just failed on a stack of depth 1
C5_Witness ==
    /\ lastTok = T_swap
    /\ invoked = "swap"
    /\ err = "swap requires at least two values on the stack"
    /\ Len(stack) = 1

(* C6.  pop() on an empty stack raises "stack underflow" and leaves the    *)
(* stack empty; no element is ever removed from an empty stack: a built-in *)
(* arithmetic operator that runs out of operands (depth 0, or depth 1 with *)
(* a numeric value) ends with that error on the empty stack, and drop on   *)
(* the empty stack raises and removes nothing.                             *)
C6_PopOnEmptyRaises ==
    [][(/\ Dispatching
        /\ lookup(ops, Head(rest)) \in {"add", "sub", "mul", "div", "drop"}
        /\ stack = <<>> \/ (/\ lookup(ops, Head(rest)) # "drop"
                            /\ Len(stack) = 1
                            /\ is_numeric(Top(stack))))
       => /\ stack' = <<>>
          /\ rest' = <<>>
          /\ lookup(ops, Head(rest)) # "drop" => err' = "stack underflow"
          /\ lookup(ops, Head(rest)) = "drop" => err' \in HandlerErrors]_vars

\* "+" has just popped its only operand and met the empty stack
C6_Witness ==
    /\ lastTok = T_plus
    /\ invoked = "add"
    /\ err = "stack underflow"
    /\ stack = <<>>
    /\ inComment = FALSE

-----------------------------------------------------------------------------
\* the handler of the latest entry of a registration log for a name
RECURSIVE LatestIn(_, _)
LatestIn(log, name) ==
    IF log = <<>> THEN NoHandler
    ELSE IF log[Len(log)][1] = name THEN log[Len(log)][2]
    ELSE LatestIn(SubSeq(log, 1, Len(log) - 1), name)

\* a token that reaches the registry lookup of dispatch_token
ReachesLookup(t) ==
    /\ ~BeginsWithHash(t)
    /\ ~WrappedInQuotes(t)
    /\ ~is_integer_token(t)
    /\ ~is_float_token(t)

(* C7.  Registration is last-write-wins: a dispatched name runs the        *)
(* handler of its latest register_op call (the constructor's calls first,  *)
(* then the later ones), never an earlier one; and a register_op call      *)
(* binds its name to its handler, adds no other name and leaves every      *)
(* other name's handler unchanged.                                         *)
C7_LastRegistrationWins ==
    [][/\ (Dispatching /\ ReachesLookup(Head(rest)))
          => invoked' = LatestIn(BuiltinOps \o regLog, Head(rest))
       /\ regLog' # regLog
          => LET call == regLog'[Len(regLog')]
             IN  /\ DOMAIN ops' = DOMAIN ops \cup {call[1]}
                 /\ ops'[call[1]] = call[2]
                 /\ \A n \in DOMAIN ops \ {call[1]} : ops'[n] = ops[n]]_vars

\* "dup", registered twice over the built-in, has run the second handler
C7_Witness ==
    /\ regLog = << <<T_dup, "kanji_info">>, <<T_dup, "oracle">> >>
    /\ lastTok = T_dup
    /\ invoked = "oracle"

-----------------------------------------------------------------------------
\* r = a op b for the operator of token t, on fractions, without division
IsResultOf(t, a, b, r) ==
    /\ r.d > 0
    /\ t = T_plus  => r.n * a.d * b.d = (a.n * b.d + b.n * a.d) * r.d
    /\ t = T_minus => r.n * a.d * b.d = (a.n * b.d - b.n * a.d) * r.d
    /\ t = T_star  => r.n * a.d * b.d = a.n * b.n * r.d
    /\ t = T_slash => r.n * a.d * b.n = a.n * b.d * r.d

(* C8.  A built-in arithmetic operator on two numeric operands a (second   *)
(* from top) and b (top), b not zero for "/", removes both and pushes      *)
(* exactly one Double equal to a op b, whatever the operands' tags: the    *)
(* depth decreases by one and the values below are untouched.              *)
C8_ArithmeticPushesOneDouble ==
    [][(/\ Dispatching
        /\ Head(rest) \in {T_plus, T_minus, T_star, T_slash}
        /\ lookup(ops, Head(rest)) \in {"add", "sub", "mul", "div"}
        /\ Len(stack) >= 2
        /\ is_numeric(Top(stack))
        /\ is_numeric(Second(stack))
        /\ Head(rest) = T_slash => ~IsZeroValue(Top(stack)))
       => /\ err' = NoErr
          /\ Len(stack') = Len(stack) - 1
          /\ DropTop(stack', 1) = DropTop(stack, 2)
          /\ Top(stack').type = "Double"
          /\ Top(stack').value.index = "double"
          /\ IsResultOf(Head(rest), NumOf(Second(stack)), NumOf(Top(stack)),
                        Top(stack').value.d)]_vars

\* "-" has just left Double -2 above an untouched value: two Integers went
\* in (only 0 - 2 gives -2 from the literals), and a - b is not b - a
C8_Witness ==
    /\ lastTok = T_minus
    /\ invoked = "sub"
    /\ err = NoErr
    /\ Len(stack) = 2
    /\ Top(stack) = make_double([n |-> -2, d |-> 1])

-----------------------------------------------------------------------------
\* the digits of an integer literal without its redundant leading zeros
RECURSIVE StripLeadingZeros(_)
StripLeadingZeros(digs) ==
    IF Len(digs) > 1 /\ digs[1] = "0" THEN StripLeadingZeros(Tail(digs))
    ELSE digs

\* the canonical decimal text of an integer literal: no '+', no redundant
\* leading zero, no sign on zero
CanonicalText(t) ==
    LET digs == StripLeadingZeros(IF t[1] \in {"+", "-"} THEN Tail(t) ELSE t)
    IN  IF digs = <<"0">> THEN digs
        ELSE IF t[1] = "-" THEN <<"-">> \o digs
        ELSE digs

(* C9.  As stated: the value pushed for an integer literal renders, with   *)
(* to_string, as the very text of the token, sign included.                *)
C9_IntegerRoundTrip_AsStated ==
    [][(Dispatching /\ is_integer_token(Head(rest)) /\ err' = NoErr)
       => to_string(Top(stack')) = Head(rest)]_vars

(* C9, amended: whenever dispatching an integer literal pushes a value,    *)
(* to_string renders it as the canonical decimal text of the token: the    *)
(* token without a leading '+' and without redundant leading zeros, "0"    *)
(* for any zero, with no decimal point; hence the very text of the token   *)
(* exactly when the token is already canonical.                            *)
C9_IntegerRoundTrip ==
    [][(Dispatching /\ is_integer_token(Head(rest)) /\ err' = NoErr)
       => LET text == to_string(Top(stack'))
          IN  /\ Len(stack') = Len(stack) + 1
              /\ text = CanonicalText(Head(rest))
              /\ \A p \in 1..Len(text) : text[p] # "."
              /\ (text = Head(rest)) <=> (CanonicalText(Head(rest)) = Head(rest))
     ]_vars

\* "-9223372036854775808" has just been pushed and renders as itself
C9_Witness ==
    /\ lastTok = T_min
    /\ err = NoErr
    /\ stack # <<>>
    /\ Top(stack).type = "Integer"
    /\ to_string(Top(stack)) = T_min

(* C10.  Dispatching an integer literal raises nothing and pushes exactly  *)
(* one Integer equal to the token's decimal value, whatever the number of  *)
(* digits.                                                                 *)
C10_IntegerLiteralAlwaysPushes ==
    [][(Dispatching /\ is_integer_token(Head(rest)))
       => /\ err' = NoErr
          /\ Len(stack') = Len(stack) + 1
          /\ DropTop(stack', 1) = stack
          /\ Top(stack').type = "Integer"
          /\ to_string(Top(stack')) = CanonicalText(Head(rest))]_vars

-----------------------------------------------------------------------------
\* the last exec_line call was given a line of exactly these tokens
LineIs(ts) == exec_line_tokens(curLine) = ts

\* the last exec_line call has dispatched all its tokens without an error
LineDone == rest = <<>> /\ err = NoErr

\* two stacks equal by WofValue::operator==, element by element
StackEq(s, t) ==
    /\ Len(s) = Len(t)
    /\ \A i \in 1..Len(s) : WofEq(s[i], t[i])

C12_SwapTwiceIsIdentity ==
    /\ [][(/\ Dispatching
           /\ Head(rest) = T_swap
           /\ lookup(ops, T_swap) = "swap"
           /\ Len(stack) >= 2)
          => /\ err' = NoErr
             /\ Len(stack') = Len(stack)
             /\ Top(stack') = Second(stack)
             /\ Second(stack') = Top(stack)
             /\ DropTop(stack', 2) = DropTop(stack, 2)]_vars
    /\ []((/\ LineIs(<<T_swap, T_swap>>)
           /\ lookup(ops, T_swap) = "swap"
           /\ Len(stack0) >= 2)
          => /\ err = NoErr
             /\ (rest = <<>> /\ lastTok = T_swap) => stack = stack0)

\* "swap swap" has run to its end on a stack of three different values
C12_Witness ==
    /\ LineIs(<<T_swap, T_swap>>)
    /\ LineDone
    /\ lastTok = T_swap
    /\ invoked = "swap"
    /\ Len(stack0) = 3
    /\ Cardinality({stack0[1], stack0[2], stack0[3]}) = 3
    /\ stack = stack0

-----------------------------------------------------------------------------
\* the text between the first and the last character of a token
Inner(t) == [p \in 1..(Len(t) - 2) |-> t[p + 1]]

(* C13.  Dispatching a token of length at least 2 that begins and ends     *)
(* with a double quote pushes exactly one String whose text is the token   *)
(* without its first and last character (empty for "", blanks kept), on    *)
(* the unchanged stack; no handler runs and nothing is parsed as a number, *)
(* also when the inner text is an operator name or a numeric literal.      *)
C13_QuotedTokenPushesString ==
    [][(Dispatching /\ WrappedInQuotes(Head(rest)))
       => /\ err' = NoErr
          /\ invoked' = NoHandler
          /\ stack' = Append(stack, make_string(Inner(Head(rest))))
          /\ Top(stack').type = "String"
          /\ Top(stack').value.index = "string"
          /\ Len(Top(stack').value.s) = Len(Head(rest)) - 2
          /\ rest' = Tail(rest)]_vars

\* "42" in quotes has been pushed as the String 42, and no handler ran
C13_Witness ==
    /\ lastTok = T_q42
    /\ err = NoErr
    /\ invoked = NoHandler
    /\ stack = <<make_string(T_42)>>

-----------------------------------------------------------------------------
\* the number of double quotes of l before position i
QuotesBefore(l, i) == Cardinality({j \in 1..(i - 1) : l[j] = "\""})

\* position i of l is read in quoted mode
InQuotedMode(l, i) == QuotesBefore(l, i) % 2 = 1

\* the character at position i of l is a closing quote
IsClosingQuote(l, i) == l[i] = "\"" /\ InQuotedMode(l, i)

\* the positions of l that are not white space outside quotes, ascending
KeptPositions(l) ==
    SelectSeq([i \in 1..Len(l) |-> i],
              LAMBDA i : ~isspace(l[i]) \/ InQuotedMode(l, i))

RECURSIVE Flatten(_)
Flatten(toks) ==
    IF toks = <<>> THEN <<>> ELSE Head(toks) \o Flatten(Tail(toks))

\* the index of the token that holds character p of Flatten(toks)
RECURSIVE TokenIndex(_, _)
TokenIndex(toks, p) ==
    IF p <= Len(Head(toks)) THEN 1
    ELSE 1 + TokenIndex(Tail(toks), p - Len(Head(toks)))

\* the rules of the tokenizer, said of a line and the tokens made of it:
\* the tokens hold, in order and once each, exactly the characters of the
\* line that are not white space outside quotes; no token is empty; and two
\* neighbouring kept characters are in one token exactly when no white
\* space was dropped between them and the first is not a closing quote
TokenizerRules(l, toks) ==
    LET kept == KeptPositions(l)
    IN  /\ Flatten(toks) = [p \in 1..Len(kept) |-> l[kept[p]]]
        /\ \A k \in 1..Len(toks) : toks[k] # <<>>
        /\ \A p \in 1..(Len(kept) - 1) :
              (TokenIndex(toks, p) = TokenIndex(toks, p + 1))
                  <=> (kept[p + 1] = kept[p] + 1 /\ ~IsClosingQuote(l, kept[p]))

\* exec_line has tokenized its line and has dispatched nothing yet
LineBegun == lastTok = <<>>

(* C14.  The tokens exec_line gets from a line obey the tokenizer rules on *)
(* the trimmed line, and so does simple_tokenize on every line as given:   *)
(* characters left to right, each character that is not white space        *)
(* outside quotes in exactly one token, white space in quotes kept, white  *)
(* space outside quotes dropped and ending the token, a token ended by its *)
(* closing quote (both quotes in it), no empty token.                      *)
C14_TokenizerRules ==
    /\ LineBegun => TokenizerRules(trim(curLine), rest)
    /\ TokenizerRules(curLine, simple_tokenize(curLine))

\* the line `" "a` has given the token `" "` (its blank kept) and the token a
C14_Witness ==
    /\ LineBegun
    /\ curLine = <<"\"", " ", "\"", "a">>
    /\ rest = << <<"\"", " ", "\"">>, <<"a">> >>

\* the number of double quotes of a text
QuoteCount(t) == Cardinality({j \in 1..Len(t) : t[j] = "\""})

(* C15.  When a line ends in quoted mode, the token begun at the           *)
(* unterminated quote is not emitted: no token of the line holds an odd    *)
(* number of quotes, and dispatching never meets such a token, so it       *)
(* pushes nothing and invokes nothing.                                     *)
C15_UnterminatedQuoteDropped ==
    /\ [](LineBegun => \A k \in 1..Len(rest) : QuoteCount(rest[k]) % 2 = 0)
    /\ [][(Dispatching /\ QuoteCount(Head(rest)) % 2 = 1)
          => stack' = stack /\ invoked' = NoHandler]_vars

-----------------------------------------------------------------------------
\* a token without its leading sign, if it has one
Unsigned(t) == IF t # <<>> /\ t[1] \in {"+", "-"} THEN Tail(t) ELSE t

\* an optional sign, then one or more digits and nothing else
IntegerShape(t) ==
    /\ Unsigned(t) # <<>>
    /\ \A p \in 1..Len(Unsigned(t)) : Unsigned(t)[p] \in Digits

\* an optional sign, then only digits and exactly one '.', a digit at least
FloatShape(t) ==
    /\ \A p \in 1..Len(Unsigned(t)) : Unsigned(t)[p] \in Digits \cup {"."}
    /\ Cardinality({p \in 1..Len(Unsigned(t)) : Unsigned(t)[p] = "."}) = 1
    /\ \E p \in 1..Len(Unsigned(t)) : Unsigned(t)[p] \in Digits

(* C16.  For every token of a line, is_integer_token holds exactly of the  *)
(* integer shape and is_float_token exactly of the float shape, never      *)
(* both; the bare "+", "-", ".", "+." and "-." are neither.  Dispatching   *)
(* an unquoted token that is no comment pushes an Integer for the first    *)
(* shape, a Double for the second, and takes every other token to the      *)
(* registry: its handler runs if it has one, else it becomes a Symbol.     *)
C16_NumericClassification ==
    /\ [](\A k \in 1..Len(rest) :
             /\ is_integer_token(rest[k]) <=> IntegerShape(rest[k])
             /\ is_float_token(rest[k]) <=> FloatShape(rest[k])
             /\ ~(is_integer_token(rest[k]) /\ is_float_token(rest[k]))
             /\ rest[k] \in {T_plus, T_minus, T_dot, <<"+", ".">>, <<"-", ".">>}
                => ~is_integer_token(rest[k]) /\ ~is_float_token(rest[k]))
    /\ [][(/\ Dispatching
           /\ ~BeginsWithHash(Head(rest))
           /\ ~WrappedInQuotes(Head(rest)))
          => /\ IntegerShape(Head(rest))
                => /\ err' = NoErr
                   /\ invoked' = NoHandler
                   /\ Len(stack') = Len(stack) + 1
                   /\ Top(stack').type = "Integer"
             /\ FloatShape(Head(rest))
                => /\ err' = NoErr
                   /\ invoked' = NoHandler
                   /\ Len(stack') = Len(stack) + 1
                   /\ Top(stack').type = "Double"
             /\ (~IntegerShape(Head(rest)) /\ ~FloatShape(Head(rest)))
                => /\ invoked' = lookup(ops, Head(rest))
                   /\ lookup(ops, Head(rest)) = NoHandler
                      => stack' = Append(stack, make_symbol(Head(rest)))]_vars

\* "-" was not taken for a number: it reached the registry and its handler
\* ran, on an empty stack
C16_Witness ==
    /\ lastTok = T_minus
    /\ invoked = "sub"
    /\ err = "stack underflow"
    /\ stack0 = <<>>

-----------------------------------------------------------------------------
\* a read loop is waiting for its next line
AtPrompt(l) == loop = l /\ rest = <<>>

\* stk without some of its topmost values, two at most: what a failing
\* built-in handler can leave of stk
LeftBy(stk) == {DropTop(stk, k) : k \in 0..(IF Len(stk) < 2 THEN Len(stk) ELSE 2)}

(* C17.  In the read loops of repl() and of main, an error raised while a  *)
(* line is executed leaves the loop running and the stack as the failing   *)
(* token left it, and the loop then reads and executes its next line on    *)
(* that stack.                                                             *)
C17_InteractiveLoopGoesOn ==
    [][/\ (Dispatching /\ loop \in {"repl", "main"} /\ err' # NoErr)
          => /\ loop' = loop
             /\ stack' \in LeftBy(stack)
       /\ (/\ loop \in {"repl", "main"}
           /\ rest = <<>>
           /\ err # NoErr
           /\ input # <<>>)
          => /\ stack' = stack
             /\ input' = Tail(input)
             /\ curLine' = Head(input)
             /\ rest' = exec_line_tokens(Head(input))]_vars

(* C18.  exec_script executes the lines of the file in their order, each   *)
(* with exec_line; the first error ends the run: it leaves exec_script,    *)
(* the lines not yet read are never executed, and the stack is what the    *)
(* earlier lines and the failing token made of it.                         *)
C18_ScriptStopsAtFirstError ==
    /\ [](loop = "script" => err = NoErr)
    /\ [][/\ (AtPrompt("script") /\ input # <<>>)
             => /\ curLine' = Head(input)
                /\ rest' = exec_line_tokens(Head(input))
                /\ input' = Tail(input)
                /\ stack' = stack
                /\ loop' = "script"
          /\ (loop = "script" /\ Dispatching)
             => /\ input' = input
                /\ err' = NoErr => loop' = "script"
                /\ err' # NoErr
                   => /\ loop' = "idle"
                      /\ rest' = <<>>
                      /\ stack' \in LeftBy(stack)
          /\ (loop # "script" /\ loop' = "script")
             => loop = "idle" /\ stack' = stack]_vars

\* a script has ended at its "+", which found a Symbol on top: the value
\* pushed before the script is still there and the script's last line was
\* never read
C18_Witness ==
    /\ loop = "idle"
    /\ err = "pop_numeric: value is not numeric"
    /\ lastTok = T_plus
    /\ curLine = T_plus
    /\ input = <<T_0>>
    /\ stack = <<make_int(I64Zero)>>

(* C19.  exec_script on a file that cannot be opened raises at once: no    *)
(* line is executed, the stack and the registry are as they were, no read  *)
(* loop is left running, and exec_script and repl can be called again.     *)
C19_UnopenableScriptChangesNothing ==
    /\ [][err' = "failed to open script"
          => /\ loop = "idle"
             /\ loop' = "idle"
             /\ stack' = stack
             /\ ops' = ops
             /\ rest' = <<>>
             /\ curLine' = curLine
             /\ input' = input
             /\ invoked' = NoHandler
             /\ lastTok' = <<>>]_vars
    /\ [](err = "failed to open script"
          => /\ loop = "idle"
             /\ rest = <<>>
             /\ ENABLED ExecScriptCall
             /\ ENABLED ReplCall)

\* exec_script has just failed to open its file, on a stack of two values
C19_Witness ==
    /\ err = "failed to open script"
    /\ loop = "idle"
    /\ Len(stack) = 2
    /\ lastTok = <<>>

-----------------------------------------------------------------------------
\* a line of white space only, the empty line included
Blank(l) == \A p \in 1..Len(l) : isspace(l[p])

\* a line without the white space before its first and after its last
\* character that is not white space
RECURSIVE Unpadded(_)
Unpadded(l) ==
    IF l = <<>> THEN l
    ELSE IF isspace(l[1]) THEN Unpadded(Tail(l))
    ELSE IF isspace(l[Len(l)]) THEN Unpadded(SubSeq(l, 1, Len(l) - 1))
    ELSE l

(* C20.  exec_line on an empty or white-space-only line raises nothing,    *)
(* dispatches no token, invokes no handler and leaves the stack as it was; *)
(* no step of exec_line changes the registry; and the tokens exec_line     *)
(* dispatches for a line are those of the line without its leading and     *)
(* trailing white space, so that this white space has no influence.        *)
C20_BlankLineAndPadding ==
    /\ [](Blank(curLine)
          => /\ rest = <<>>
             /\ err = NoErr
             /\ invoked = NoHandler
             /\ lastTok = <<>>
             /\ stack = stack0)
    /\ [](LineBegun
          => rest = IF Unpadded(curLine) = <<>> THEN <<>>
                    ELSE simple_tokenize(Unpadded(curLine)))
    /\ [][regLog' = regLog => ops' = ops]_vars

\* a line of a blank and a tab has been executed on a stack of two values
C20_Witness ==
    /\ curLine = <<" ", "\t">>
    /\ LineBegun
    /\ rest = <<>>
    /\ err = NoErr
    /\ Len(stack) = 2
    /\ stack = stack0

-----------------------------------------------------------------------------
(* C21.  print and .s never raise and leave the stack as it was, at every  *)
(* depth the model reaches, the empty stack included: a dispatch step      *)
(* whose token is bound to the print or the .s handler ends without an     *)
(* error, with the same stack, and the line goes on with the next token.   *)

ShowHandlers == {"print", "dot_s"}

C21_ShowingLeavesStack ==
    [][(Dispatching /\ lookup(ops, Head(rest)) \in ShowHandlers)
         => /\ err' = NoErr
            /\ stack' = stack
            /\ invoked' = lookup(ops, Head(rest))
            /\ rest' = Tail(rest)]_vars

C21_Witness ==
    /\ lastTok = T_print
    /\ invoked = "print"
    /\ stack = <<>>
    /\ err = NoErr

-----------------------------------------------------------------------------
(* C22.  With only the constructor's operators registered, the token "."   *)
(* invokes the stack-printing handler and leaves the stack as it was.      *)
(* The constructor registers the stack printer under ".s" only, so "." is  *)
(* an unknown token: it is pushed as a Symbol and no handler runs.         *)

C22_DotShowsStack ==
    [][(Dispatching /\ Head(rest) = T_dot /\ ops = Constructor)
         => /\ invoked' = "dot_s"
            /\ stack' = stack
            /\ err' = NoErr]_vars

-----------------------------------------------------------------------------
(* Vocabulary of plugin loading.  The events a step adds to the log tell   *)
(* which call the step was: a call begins with its own event.              *)

NewEvents == SubSeq(plugLog', Len(plugLog) + 1, Len(plugLog'))

CallStep(tag) ==
    /\ Len(plugLog') > Len(plugLog)
    /\ SubSeq(plugLog', 1, Len(plugLog)) = plugLog
    /\ plugLog'[Len(plugLog) + 1][1] = tag

\* how many times an event occurs in a log
Count(log, e) == Cardinality({i \in 1..Len(log) : log[i] = e})

Occurrences(seq, x) == Cardinality({i \in 1..Len(seq) : seq[i] = x})

-----------------------------------------------------------------------------
(* C23.  load_plugin on a path where nothing exists returns without        *)
(* raising and without effect: the call opens nothing (its own event is    *)
(* the only one the step adds), and the registry, the stack and the        *)
(* retained handles are what they were.                                    *)

C23_MissingPathIsIgnored ==
    [][(CallStep("load_plugin") /\ NewEvents[1][2] = MissingFile.name)
         => /\ NewEvents = << <<"load_plugin", MissingFile.name>> >>
            /\ ops' = ops
            /\ regLog' = regLog
            /\ stack' = stack
            /\ plugin_handles' = plugin_handles
            /\ err' = NoErr]_vars

C23_Witness ==
    /\ plugLog # <<>>
    /\ plugLog[Len(plugLog)] = <<"load_plugin", MissingFile.name>>
    /\ plugin_handles # <<>>
    /\ ~destroyed

HasSuffix(name, suf) ==
    /\ Len(name) >= Len(suf)
    /\ SubSeq(name, Len(name) - Len(suf) + 1, Len(name)) = suf

\* a regular file with the dynamic-module suffix of the dlopen build
IsCandidate(f) ==
    /\ f.kind = "regular"
    /\ HasSuffix(f.name, DotSo) \/ HasSuffix(f.name, DotDylib)

\* a file dlopen accepts and in which dlsym finds register_plugin
IsModule(f) == f.lib \notin {"notlib", "noentry"}

EntriesOf(dir) == {dir.entries[i] : i \in 1..Len(dir.entries)}

\* the register_op calls of the modules among the candidates, in order
RECURSIVE RegsOf(_)
RegsOf(entries) ==
    IF entries = <<>> THEN <<>>
    ELSE (IF IsCandidate(Head(entries)) /\ IsModule(Head(entries))
          THEN ModuleOps(Head(entries).lib) ELSE <<>>) \o RegsOf(Tail(entries))

-----------------------------------------------------------------------------
(* C24.  load_plugins on a directory returns normally whatever its         *)
(* candidates are.  load_plugin is attempted on every candidate, also      *)
(* after one that dlopen rejects or that has no register_plugin; every     *)
(* operator of a module among them is bound to its handler afterwards and  *)
(* dispatch invokes it; a candidate that fails registers nothing and is    *)
(* not retained: the register_op calls of the step are those of the        *)
(* modules, in order.                                                      *)

C24_FailingCandidateIsSkipped ==
    [][(CallStep("load_plugins") /\ curDir'.kind = "directory")
         => /\ err' = NoErr
            /\ regLog' = regLog \o RegsOf(curDir'.entries)
            /\ \A f \in EntriesOf(curDir') :
                 IsCandidate(f) =>
                    /\ Count(NewEvents, <<"load_plugin", f.name>>) >= 1
                    /\ IF IsModule(f)
                       THEN /\ Count(NewEvents, <<"register_plugin", f.name>>) = 1
                            /\ \A k \in 1..Len(ModuleOps(f.lib)) :
                                 LET reg == ModuleOps(f.lib)[k]
                                 IN  /\ lookup(ops', reg[1]) = reg[2]
                                     /\ dispatch_token(stack', ops', reg[1])
                                            = Dispatched(stack', NoErr, reg[2])
                       ELSE /\ Count(NewEvents, <<"register_plugin", f.name>>) = 0
                            /\ Occurrences(plugin_handles', f.name)
                                 = Occurrences(plugin_handles, f.name)]_vars

C24_Witness ==
    /\ curDir.kind = "directory"
    /\ Len(curDir.entries) = 2
    /\ curDir.entries[1].lib \in {"notlib", "noentry"}
    /\ IsCandidate(curDir.entries[1])
    /\ curDir.entries[2].lib = "kanji_ops"
    /\ IsCandidate(curDir.entries[2])
    /\ lastTok = T_kanji_info
    /\ invoked = "kanji_info"
    /\ err = NoErr

-----------------------------------------------------------------------------
(* C25.  A handle is retained exactly when register_plugin was resolved    *)
(* and called in its module, and a retained handle stays open while the    *)
(* interpreter lives: no exec_line, register_op, clear_stack, load_plugin  *)
(* or load_plugins step removes a handle, and the only dlclose such a      *)
(* step makes follows at once the dlopen of a module without               *)
(* register_plugin.  The destructor makes one dlclose for each retained    *)
(* handle and nothing else, so that afterwards every module that was       *)
(* opened has been closed as often as it was opened.                       *)

HandleNames == {f.name : f \in PlugPaths}

StillOpen(h) ==
    Count(plugLog, <<"dlopen", h>>) - Count(plugLog, <<"dlclose", h>>)

IsPrefixOf(s, t) == Len(s) <= Len(t) /\ SubSeq(t, 1, Len(s)) = s

C25_HandlesHeldUntilDestructor ==
    /\ [](\A h \in HandleNames :
            IF destroyed
            THEN StillOpen(h) = 0 /\ plugin_handles = <<>>
            ELSE /\ StillOpen(h) = Occurrences(plugin_handles, h)
                 /\ Count(plugLog, <<"register_plugin", h>>)
                      = Occurrences(plugin_handles, h))
    /\ [][IF destroyed' /\ ~destroyed
          THEN /\ NewEvents = [i \in 1..Len(plugin_handles) |->
                                  <<"dlclose", plugin_handles[i]>>]
               /\ plugin_handles' = <<>>
          ELSE /\ IsPrefixOf(plugin_handles, plugin_handles')
               /\ \A i \in 1..Len(NewEvents) :
                    NewEvents[i][1] = "dlclose"
                       => /\ i > 1
                          /\ NewEvents[i - 1] = <<"dlopen", NewEvents[i][2]>>
                          /\ Occurrences(plugin_handles', NewEvents[i][2])
                               = Occurrences(plugin_handles, NewEvents[i][2])]_vars

C25_Witness ==
    /\ destroyed
    /\ begun
    /\ Count(plugLog, <<"dlclose", <<"k">> \o DotSo>>) = 2
    /\ Count(plugLog, <<"dlclose", <<"n">> \o DotSo>>) = 1

-----------------------------------------------------------------------------
(* C26.  On a directory, the load_plugin calls of load_plugins are one for *)
(* each regular file whose name ends in .so or .dylib, in the order of the *)
(* listing, and no other: an entry with another suffix and an entry that   *)
(* is no regular file appear in no event of the step.  On a path that is   *)
(* missing or no directory the call makes no load_plugin call, changes     *)
(* nothing and does not raise.                                             *)

IsLoadCall(e) == e[1] = "load_plugin"

CandidateNames(entries) ==
    LET cands == SelectSeq(entries, IsCandidate)
    IN  [i \in 1..Len(cands) |-> cands[i].name]

LoadedNames(events) ==
    LET calls == SelectSeq(events, IsLoadCall)
    IN  [i \in 1..Len(calls) |-> calls[i][2]]

C26_OnlyModuleFilesAreLoaded ==
    [][CallStep("load_plugins")
         => /\ err' = NoErr
            /\ stack' = stack
            /\ IF curDir'.kind = "directory"
               THEN /\ LoadedNames(NewEvents) = CandidateNames(curDir'.entries)
                    /\ \A f \in EntriesOf(curDir') :
                         ~IsCandidate(f)
                            => \A i \in 2..Len(NewEvents) :
                                  NewEvents[i][2] # f.name
               ELSE /\ NewEvents = << <<"load_plugins", curDir'.name>> >>
                    /\ ops' = ops
                    /\ regLog' = regLog
                    /\ plugin_handles' = plugin_handles]_vars

C26_Witness ==
    /\ curDir = DirAt("directory",
                      <<FileAt(<<"k", ".", "d", "l", "l">>, "regular", "kanji_ops"),
                        FileAt(<<"k">> \o DotSo, "regular", "kanji_ops")>>)
    /\ plugLog = << <<"load_plugins", T_plugins>>,
                    <<"load_plugin", <<"k">> \o DotSo>>,
                    <<"dlopen", <<"k">> \o DotSo>>,
                    <<"register_plugin", <<"k">> \o DotSo>> >>
    /\ plugin_handles = << <<"k">> \o DotSo >>

-----------------------------------------------------------------------------
(* C27.  In a run of main and in a run of run_tests load_plugins is called *)
(* at most once, and every step that makes a plugin-loading call leaves an *)
(* interpreter on which exec_line has not been called: once a line has     *)
(* been given to exec_line the log of the loading calls and the retained   *)
(* handles stay as they are, so no module is loaded after dispatch began.  *)

InRun == loop \in {"main", "tests0", "tests", "exited", "terminated"}

C27_PluginsLoadedBeforeFirstLine ==
    /\ [](InRun => Count(plugLog, <<"load_plugins", T_plugins>>) <= 1)
    /\ [][(plugLog' # plugLog \/ plugin_handles' # plugin_handles)
            => ~begun']_vars
    /\ [][begun => /\ plugLog' = plugLog
                   /\ plugin_handles' = plugin_handles
                   /\ begun']_vars

C27_Witness ==
    /\ loop = "main"
    /\ begun
    /\ Count(plugLog, <<"load_plugins", T_plugins>>) = 1
    /\ plugin_handles # <<>>
    /\ lastTok = T_kanji_info
    /\ invoked = "kanji_info"

-----------------------------------------------------------------------------
(* C28.  Equality is structural and does not coerce.  As stated: two       *)
(* values are equal exactly when they have the same tag, the same payload  *)
(* and units that are both absent or both present with equal name and      *)
(* scale; operator!= is the negation.  A Float whose payload is NaN has    *)
(* the same tag, payload and unit as itself and is not equal to itself.    *)
(* The rule holds when "the same payload" is read for a Float as "payloads *)
(* that compare equal", which no NaN does.                                 *)

SameUnits(a, b) ==
    \/ ~a.unit.present /\ ~b.unit.present
    \/ /\ a.unit.present
       /\ b.unit.present
       /\ a.unit.name = b.unit.name
       /\ a.unit.scale = b.unit.scale

HoldsNaN(w) == w.value.index = "double" /\ w.value.d = NaN

StructurallyEqual(a, b) ==
    a.type = b.type /\ a.value = b.value /\ SameUnits(a, b)

Compared(P(_, _)) ==
    \A i, j \in 1..Len(stack) :
        /\ WofEq(stack[i], stack[j]) <=> P(stack[i], stack[j])
        /\ WofNe(stack[i], stack[j]) <=> ~P(stack[i], stack[j])

C28_EqualityIsStructural_AsStated == Compared(StructurallyEqual)

EqualUpToNaN(a, b) == StructurallyEqual(a, b) /\ ~HoldsNaN(a)

C28_EqualityIsStructural ==
    /\ Compared(EqualUpToNaN)
    /\ \A i, j \in 1..Len(stack) :
          LET a == stack[i]
              b == stack[j]
          IN  /\ a.type # b.type => WofNe(a, b)
              /\ a.unit.present # b.unit.present => WofNe(a, b)

C28_Witness ==
    /\ Len(stack) = 3
    /\ stack[1] = make_double(NaN)
    /\ stack[2] = make_double(NaN)
    /\ stack[3] = WithUnit(make_double(Rat(2, 1)), <<"m">>, Rat(1, 1))

-----------------------------------------------------------------------------
(* C29.  as_numeric gives the value of an Integer and of a Float and       *)
(* raises for every value of another tag.  When one of the two values on   *)
(* top of the stack is a String or a Symbol, each of + - * / raises        *)
(* "pop_numeric: value is not numeric", pushes nothing and ends the line:  *)
(* the stack is left without the operands that were popped before the      *)
(* exception, the top alone if the top is the text, both otherwise.        *)

Arithmetic == {"add", "sub", "mul", "div"}

IsText(w) == w.type \in {"String", "Symbol"}

C29_TextOperandRaises ==
    /\ [](\A i \in 1..Len(stack) :
            LET r == as_numeric(stack[i])
            IN  IF stack[i].type \in {"Integer", "Double"}
                THEN r.err = NoErr /\ r.x = NumOf(stack[i])
                ELSE r.err = "WofValue::as_numeric: value is not numeric")
    /\ [][(/\ Dispatching
           /\ lookup(ops, Head(rest)) \in Arithmetic
           /\ Len(stack) >= 2
           /\ IsText(Top(stack)) \/ IsText(Second(stack)))
            => /\ err' = "pop_numeric: value is not numeric"
               /\ rest' = <<>>
               /\ stack' = DropTop(stack, IF IsText(Top(stack)) THEN 1 ELSE 2)]_vars

C29_Witness ==
    /\ invoked = "add"
    /\ lastTok = T_plus
    /\ err = "pop_numeric: value is not numeric"
    /\ Len(stack) = 1
    /\ stack[1].type = "String"

-----------------------------------------------------------------------------
(* C30.  Two interpreters do not interfere.  Every step is a call on one   *)
(* of them, and no step changes both: a register_op, exec_line or          *)
(* clear_stack step on one leaves the stack and the registry of the other  *)
(* as they were.  The result of a line is a function of the stack and the  *)
(* registry of the interpreter it is given to: when the line ends, the     *)
(* stack and the exception are those exec_line computes from the stack the *)
(* line found and this interpreter's registry, whatever the other          *)
(* interpreter holds and has been given.                                   *)

C30_InstancesDoNotInterfere ==
    /\ [][peer' # peer => UNCHANGED <<stack, ops, rest, err>>]_vars
    /\ [][(Dispatching /\ rest' = <<>>)
            => [stack |-> stack', err |-> err']
                 = exec_line(stack0, ops, curLine)]_vars
    /\ [][peer'.stack # peer.stack
            => \/ peer'.stack = <<>>
               \/ \E l \in PeerLines :
                     peer'.stack = exec_line(peer.stack, peer.ops, l).stack]_vars

C30_Witness ==
    /\ ops = Constructor
    /\ peer.ops # Constructor
    /\ peer.stack # <<>>
    /\ peer.stack # stack
    /\ LineIs(<<T_dup>>)
    /\ LineDone
    /\ invoked = "dup"
    /\ Len(stack) = 2

-----------------------------------------------------------------------------
(* C31.  Every value the four constructors build, and every value on the   *)
(* stack after any lines run with the built-in operators, holds exactly    *)
(* the payload of its tag: an Integer the int64 alternative, a Float the   *)
(* double, a String and a Symbol the text; no value on the stack has the   *)
(* tag Unknown or an empty payload.                                        *)

PayloadOf(tag) ==
    CASE tag = "Integer" -> "int64"
      [] tag = "Double"  -> "double"
      [] tag = "String"  -> "string"
      [] tag = "Symbol"  -> "string"
      [] OTHER           -> "none"

TagMatchesPayload(w) ==
    /\ w.type \in {"Integer", "Double", "String", "Symbol"}
    /\ w.value.index = PayloadOf(w.type)
    /\ w.value.index # "int64" => w.value.i = I64Zero
    /\ w.value.index # "double" => w.value.d = RatZero
    /\ w.value.index # "string" => w.value.s = <<>>

C31_TagMatchesPayload ==
    /\ TagMatchesPayload(make_int(I64Of(-2)))
    /\ TagMatchesPayload(make_double(Rat(1, 2)))
    /\ TagMatchesPayload(make_string(<<>>))
    /\ TagMatchesPayload(make_symbol(<<"a">>))
    /\ \A i \in 1..Len(stack) : TagMatchesPayload(stack[i])

C31_Witness ==
    /\ Len(stack) = 2
    /\ stack[1].type = "String"
    /\ stack[2].type = "Double"
    /\ invoked = "div"
    /\ err = NoErr

-----------------------------------------------------------------------------
(* C32.  Right after construction the registered names are + - * / dup     *)
(* drop swap print and .s, and no step removes a name: whatever is         *)
(* registered before a step, by the constructor, by register_op or by a    *)
(* module, is registered after it, possibly bound to another handler.      *)

BuiltinNames ==
    {T_plus, T_minus, T_star, T_slash, T_dup, T_drop, T_swap, T_print, T_dot_s}

C32_RegistryOnlyGrows ==
    /\ DOMAIN ops = BuiltinNames
    /\ [][DOMAIN ops \subseteq DOMAIN ops']_vars
    /\ [](BuiltinNames \subseteq DOMAIN ops)

C32_Witness ==
    /\ regLog # <<>>
    /\ regLog[1] = <<T_oracle, "kanji_info">>
    /\ ops[T_oracle] = "oracle"
    /\ T_kanji_info \in DOMAIN ops
    /\ destroyed


-----------------------------------------------------------------------------
(* C33.  With the operators of trig_ops registered, "pi" and "e" each push *)
(* exactly one Double and take nothing off the stack, and each of sin,     *)
(* cos, tan, asin, acos, atan, sinh, cosh, tanh on a numeric top value     *)
(* replaces it by exactly one Double without raising: the depth and the    *)
(* values below are as before.  So the lines "pi", "e", "pi 2 / sin" and   *)
(* "0 cos" of the tests run without an error.                              *)

TrigConstants == {T_pi, T_e}

TrigUnaryNames ==
    {T_sin, T_cos, T_tan, T_asin, T_acos, T_atan, T_sinh, T_cosh, T_tanh}

IsOneDouble(w) ==
    w.type = "Double" /\ w.value.index = "double" /\ ~w.unit.present

-----------------------------------------------------------------------------
(* C34.  Classification comes before the registry.  A token that begins    *)
(* with '#', is wrapped in double quotes or is an integer or float literal *)
(* never runs a handler, also when an operator is registered under that    *)
(* very name: the comment leaves the stack alone, the quoted token pushes  *)
(* its String, the integer literal its Integer and the float literal its   *)
(* Double.                                                                 *)
C34_ClassificationBeforeRegistry ==
    [][(/\ Dispatching
        /\ Head(rest) \in DOMAIN ops
        /\ ~ReachesLookup(Head(rest)))
       => /\ invoked' = NoHandler
          /\ err' = NoErr
          /\ IF BeginsWithHash(Head(rest)) THEN stack' = stack
             ELSE /\ DropTop(stack', 1) = stack
                  /\ Len(stack') = Len(stack) + 1
                  /\ Top(stack') =
                       IF WrappedInQuotes(Head(rest))
                       THEN make_string(Inner(Head(rest)))
                       ELSE IF is_integer_token(Head(rest))
                       THEN make_int(stoll(Head(rest)).v)
                       ELSE make_double(stod(Head(rest)))]_vars

\* "2 42" with drop registered as "42": the 42 is pushed on the 2
C34_Witness ==
    /\ T_42 \in DOMAIN ops
    /\ ops[T_42] = "drop"
    /\ lastTok = T_42
    /\ invoked = NoHandler
    /\ err = NoErr
    /\ stack = <<make_int(I64Of(2)), make_int(I64Of(42))>>


-----------------------------------------------------------------------------
(* C35.  The frame of the core operations.  Dispatching a comment, a       *)
(* literal or a built-in operator, whether it ends well or raises, leaves  *)
(* every stack element below those the operator takes as it was: below the *)
(* top two for + - * / and swap, below the top for dup and drop, the whole *)
(* stack for print, .s, comments and literal pushes.  The registry is      *)
(* never changed by it.                                                    *)

\* how many values from the top the handler may touch
Takes(h) ==
    CASE h \in {"add", "sub", "mul", "div", "swap"} -> 2
      [] h \in {"dup", "drop"} -> 1
      [] OTHER -> 0

\* the handler the token is dispatched to, NoHandler for what is classified
\* before the registry is asked
HandlerOf(t) == IF ReachesLookup(t) THEN lookup(ops, t) ELSE NoHandler

C35_FrameOfCoreOperations ==
    [][(/\ Dispatching
        /\ HandlerOf(Head(rest)) \in BuiltinHandlers \cup {NoHandler}
        /\ ReachesLookup(Head(rest)) => Head(rest) \in DOMAIN ops)
       => /\ ops' = ops
          /\ \A i \in 1..(Len(stack) - Takes(HandlerOf(Head(rest)))) :
                i <= Len(stack') /\ stack'[i] = stack[i]]_vars

\* "+" has raised on a String under an Integer, above a value that stayed
C35_Witness ==
    /\ lastTok = T_plus
    /\ invoked = "add"
    /\ err = "pop_numeric: value is not numeric"
    /\ Len(stack) = 1
    /\ stack[1] = make_double(Rat(1, 2))


-----------------------------------------------------------------------------
(* C36.  At teardown the handlers a module installed leave the registry    *)
(* before the module's handle is released: in no state, the states of the  *)
(* destructor included, does the registry hold a handler of a module that  *)
(* register_plugin was called on and that is open no more.                 *)

\* the module of file f has registered its operators and has been closed
Released(f) ==
    /\ Count(plugLog, <<"register_plugin", f.name>>) > 0
    /\ StillOpen(f.name) = 0

\* the names the registry binds to the handlers the module of f installed
InstalledBy(f) ==
    {ModuleOps(f.lib)[i][1] : i \in 1..Len(ModuleOps(f.lib))}
        \cap {n \in DOMAIN ops :
                \E i \in 1..Len(ModuleOps(f.lib)) :
                    ModuleOps(f.lib)[i] = <<n, ops[n]>>}

C36_HandlersLeaveBeforeRelease ==
    \A f \in PlugFiles : Released(f) => InstalledBy(f) = {}


-----------------------------------------------------------------------------
(* C37.  No opened handle is left untracked: when load_plugin has          *)
(* returned or an exception of register_plugin has left it, every module   *)
(* that is open is in plugin_handles, as often as it is open.  And when    *)
(* register_plugin throws during load_plugins, the candidates that follow  *)
(* in the directory are still given to load_plugin.                        *)

ThrowNames == {f.name : f \in ThrowFiles}

C37_NoHandleUntracked ==
    /\ [](~destroyed =>
            \A h \in ThrowNames : StillOpen(h) = Occurrences(plugin_handles, h))
    /\ [][CallStep("load_plugins")
            => \A f \in EntriesOf(curDir') :
                 Count(NewEvents, <<"load_plugin", f.name>>) = 1]_vars


-----------------------------------------------------------------------------
(* C38.  The registry load_plugins leaves does not depend on the order the *)
(* directory's files are enumerated in, also when two modules register the *)
(* same name: a run over the same files in any other order binds every     *)
(* name to the same handler.                                               *)
C38_RegistryIndependentOfOrder ==
    [][CallStep("load_plugins")
        => \A es \in Orders(EntriesOf(curDir')) :
              load_plugins(LoaderState, DirAt("directory", es)).ops = ops']_vars


-----------------------------------------------------------------------------
(* C39.  With the built-in operators alone, every exec_line call ends.     *)
(* While it runs, every step dispatches the leftmost token not yet         *)
(* dispatched, once, and the handler is through before the next token is   *)
(* looked at: the stack is what dispatching the tokens so far, one after   *)
(* the other, makes of the stack the call found.  The call ends after the  *)
(* last token, or at the first token that raises, whose exception is the   *)
(* one exec_line as a whole raises.                                        *)

TokensOfLine == exec_line_tokens(curLine)

DispatchedSoFar == SubSeq(TokensOfLine, 1, Len(TokensOfLine) - Len(rest))

C39_ExecLineTerminates ==
    /\ Dispatching ~> ~Dispatching
    /\ [][Dispatching
            => /\ lastTok' = Head(rest)
               /\ rest' = IF err' = NoErr THEN Tail(rest) ELSE <<>>
               /\ Len(rest') < Len(rest)]_vars
    /\ [](DOMAIN ops = BuiltinNames)
    /\ [](IF err = NoErr
          THEN /\ Len(rest) <= Len(TokensOfLine)
               /\ TokensOfLine = DispatchedSoFar \o rest
               /\ DispatchAll(stack0, ops, DispatchedSoFar) = Ok(stack)
          ELSE /\ rest = <<>>
               /\ exec_line(stack0, ops, curLine) = Raise(stack, err))

\* "2 0 /" has ended at its last token, which raised
C39_Witness ==
    /\ curLine = JoinLine(<<T_2, T_0, T_slash>>)
    /\ lastTok = T_slash
    /\ rest = <<>>
    /\ err # NoErr
    /\ stack0 # <<>>


-----------------------------------------------------------------------------
(* C40.  simplify_sum is X + X -> 2 * X on the stack.  When the two values *)
(* on top are Symbols of the same text X, they are replaced by Integer 2   *)
(* and, on top of it, Symbol X: the depth and the values below stay.  In   *)
(* every other case the stack is left as it was, the two values in their   *)
(* order; with fewer than two values nothing is raised and nothing changes.*)

SameSymbols(a, b) ==
    a.type = "Symbol" /\ b.type = "Symbol" /\ a.value.s = b.value.s

C40_SimplifySum ==
    [][(/\ Dispatching
        /\ Head(rest) = T_simplify_sum
        /\ lookup(ops, Head(rest)) = "simplify_sum")
       => /\ err' = NoErr
          /\ IF Len(stack) >= 2 /\ SameSymbols(Second(stack), Top(stack))
             THEN /\ Len(stack') = Len(stack)
                  /\ DropTop(stack', 2) = DropTop(stack, 2)
                  /\ Second(stack') = make_int(I64Of(2))
                  /\ Top(stack') = make_symbol(Top(stack).value.s)
             ELSE stack' = stack]_vars

\* "x x simplify_sum" on the empty stack has left 2 under x
C40_Witness ==
    /\ curLine = JoinLine(<<T_x, T_x, T_simplify_sum>>)
    /\ stack0 = <<>>
    /\ rest = <<>>
    /\ invoked = "simplify_sum"
    /\ err = NoErr
    /\ stack = <<make_int(I64Of(2)), make_symbol(T_x)>>

=============================================================================
